---- MODULE Spec2Model ----
(***************************************************************************)
(* Enemy behaviour and stage progression of galangua.                      *)
(*                                                                         *)
(* SpecStage : StageManager (stage_manager.rs), the stage state machine.   *)
(***************************************************************************)
EXTENDS Integers, Sequences, FiniteSets, TLC

(***************************************************************************)
(* Bounds of the model.                                                    *)
(***************************************************************************)
MaxAlive == 12
TrajLen == 2
MaxMoveTicks == 520
SwingTicks == 3
FreeAtStart == 2
MaxScheduled == 2

(***************************************************************************)
(* StageManager: stage_state and the inputs of check_stage_state.          *)
(***************************************************************************)
VARIABLES
    stage_state,        \* StageManager.stage_state
    alive_enemy_count,  \* EnemyManager.alive_enemy_count
    appearance_done,    \* AppearanceManager.done
    attack_enabled,     \* AttackManager enable flag (set_enable)
    stage_op,           \* the StageManager operation that ran last
    stage_prev          \* <<count, state>> left by the previous update

stageVars == <<stage_state, alive_enemy_count, appearance_done, attack_enabled,
               stage_op, stage_prev>>

(***************************************************************************)
(* Enemies, formation, event queue and the player they react to.           *)
(***************************************************************************)
VARIABLES
    enemies,            \* EnemyManager.enemies, by formation index
    event_queue,        \* EventQueue: the events pushed in the current frame
    shot_paused,        \* the wait last given to pause_enemy_shot
    formation_phase,    \* Formation: the phase of its swing
    player_pos,         \* Accessor::get_raw_player_pos
    player_state,       \* playing, dead, capturing (in the beam) or captured
    damage_result,      \* the last DamageResult, with the enemy it was for
    capture_log         \* events of the Owl's current attack, counted

enemyVars == <<enemies, event_queue, shot_paused, formation_phase, player_pos,
               player_state, damage_result, capture_log>>

(***************************************************************************)
(* State of the parts checked on their own.                                *)
(***************************************************************************)
VARIABLES
    move_ticks,         \* updates run by the move-to-formation loop, -1 outside it
    move_mark,          \* a configuration the loop has been in, or NoMark
    formation,          \* Formation: its swing and whether it has settled
    attackers,          \* AttackManager: the attacks it has scheduled
    tick_log,           \* what the passes of the last StageManager::update did
    old_manager,        \* the slot arrays of the EnemyManager that owns them
    pad,                \* Pad: the button sets and the last operation on it
    dual_player_pos,    \* Accessor::get_dual_player_pos: <<pos>>, or <<>> for None
    stage_no,           \* Accessor::get_stage_no
    ecs_owl,            \* the entity-component Owl stepped beside the Owl, if any
    game_info,          \* GameInfo of the entity-component game, if any
    stage_indicator     \* StageIndicator: the flags that count up to the stage

partVars == <<move_ticks, move_mark, formation, attackers, tick_log, old_manager, pad>>
coreUtilVars == <<partVars, dual_player_pos, stage_no, stage_indicator>>
utilVars == <<coreUtilVars, ecs_owl, game_info>>
sideVars == <<dual_player_pos, stage_no, ecs_owl, game_info, stage_indicator>>

vars == <<stageVars, enemyVars, utilVars>>

NoMark == <<>>

\* Formation::new / restart: the entry swing starts, appearance is not done.
FormationNew == [moving_pat |-> "Slide", moving_count |-> 0, done_appearance |-> FALSE]

MAX_ENEMY_COUNT == 64
MAX_SHOT_COUNT == 16

\* EnemyManager::new and restart: every slot of both arrays is empty.
OldManagerNew ==
    [enemies |-> [i \in 1..MAX_ENEMY_COUNT |-> <<>>],
     shots |-> [i \in 1..MAX_SHOT_COUNT |-> <<>>],
     op |-> "restart", spawned |-> FALSE]

\* Pad::default: no bit is set in any field.
PadDefault == [pad |-> {}, trg |-> {}, last_pad |-> {}, key |-> {}, joy |-> {},
               op |-> "default"]

NoTickLog == [trace |-> <<>>, enabled_at |-> <<>>, attack_unsettled |-> FALSE]

NoEcsOwl == [state |-> "none"]

NoGameInfo == [game_state |-> "none"]

\* StageIndicator::new.  played counts the sounds of the last call, quiet the
\* updates since the last rise of stage_disp that have left it alone, up to 3.
StageIndicatorNew ==
    [stage |-> 0, wait |-> 0, stage_disp |-> 0, played |-> 0, quiet |-> 0, op |-> "new"]

InitParts ==
    /\ move_ticks = -1
    /\ move_mark = NoMark
    /\ formation = FormationNew
    /\ attackers = 0
    /\ tick_log = NoTickLog
    /\ old_manager = OldManagerNew
    /\ pad = PadDefault

\* The first stage, played without a dual fighter.
InitUtilCore ==
    /\ InitParts
    /\ dual_player_pos = <<>>
    /\ stage_no = 0
    /\ stage_indicator = StageIndicatorNew

\* The first stage with the dispatch-table enemies only.
InitSide ==
    /\ dual_player_pos = <<>>
    /\ stage_no = 0
    /\ stage_indicator = StageIndicatorNew
    /\ ecs_owl = NoEcsOwl
    /\ game_info = NoGameInfo

\* No entity-component Owl runs beside the enemies.
InitUtil ==
    /\ InitUtilCore
    /\ ecs_owl = NoEcsOwl
    /\ game_info = NoGameInfo

RUSH_THRESHOLD == 5

StageState == {"APPEARANCE", "NORMAL", "RUSH", "CLEARED"}

\* check_stage_state with the comparison n < RUSH_THRESHOLD.
check_stage_state_lt(state, n) ==
    IF state = "APPEARANCE" THEN state
    ELSE IF n = 0 THEN "CLEARED"
    ELSE IF n < RUSH_THRESHOLD THEN "RUSH"
    ELSE state


\* check_stage_state that does not wait for the end of the appearance.
check_stage_state_in_appearance(state, n) ==
    IF n = 0 THEN "CLEARED"
    ELSE IF n <= RUSH_THRESHOLD THEN "RUSH"
    ELSE state

\* StageManager::check_stage_state: the new stage state for alive count n.
check_stage_state(state, n) ==
    IF state = "APPEARANCE" THEN state
    ELSE IF n = 0 THEN "CLEARED"
    ELSE IF n <= RUSH_THRESHOLD THEN "RUSH"
    ELSE state

\* StageManager::new
InitStageBase ==
    /\ stage_state = "APPEARANCE"
    /\ alive_enemy_count = 0
    /\ appearance_done = FALSE
    /\ attack_enabled = FALSE
    /\ stage_op = "new"
    /\ stage_prev = <<0, "APPEARANCE">>
    /\ enemies = <<>>
    /\ event_queue = <<>>
    /\ shot_paused = 0
    /\ formation_phase = 0
    /\ player_pos = <<0, 0>>
    /\ player_state = "playing"
    /\ damage_result = <<>>
    /\ capture_log = <<>>

InitStage ==
    /\ InitStageBase
    /\ InitUtil

\* StageManager::start_next_stage
start_next_stage ==
    /\ stage_state' = "APPEARANCE"
    /\ alive_enemy_count' = 0
    /\ appearance_done' = FALSE
    /\ attack_enabled' = FALSE
    /\ stage_op' = "start_next_stage"
    /\ stage_prev' = <<0, "APPEARANCE">>
    /\ UNCHANGED <<enemyVars, utilVars>>

\* StageManager::update: update_appearance (spawned new borns, the appearance
\* manager finishing in this tick or not), update_formation, update_attackers,
\* enemy_manager.update (died enemies disappear), check_stage_state.
StageUpdate(spawned, finish, died) ==
    LET done1 == appearance_done \/ finish
        count1 == alive_enemy_count + spawned
        becameDone == ~appearance_done /\ done1
        state1 == IF becameDone THEN "NORMAL" ELSE stage_state
        count2 == count1 - died
        state2 == check_stage_state(state1, count2)
    IN  /\ spawned > 0 => ~appearance_done
        /\ count1 <= MaxAlive
        /\ died <= count1
        /\ appearance_done' = done1
        /\ attack_enabled' = (attack_enabled \/ becameDone)
        /\ alive_enemy_count' = count2
        /\ stage_state' = state2
        /\ stage_op' = "update"
        /\ stage_prev' = <<alive_enemy_count, state1>>
        /\ UNCHANGED <<enemyVars, utilVars>>

\* StageManager::check_collision: an enemy is killed between two updates.
StageCheckCollision ==
    /\ alive_enemy_count > 0
    /\ alive_enemy_count' = alive_enemy_count - 1
    /\ stage_op' = "check_collision"
    /\ UNCHANGED <<stage_state, appearance_done, attack_enabled, stage_prev>>
    /\ UNCHANGED <<enemyVars, utilVars>>

\* StageManager::spawn_captured_fighter: the captured fighter joins the enemies.
StageSpawnCapturedFighter ==
    /\ alive_enemy_count < MaxAlive
    /\ alive_enemy_count' = alive_enemy_count + 1
    /\ stage_op' = "spawn_captured_fighter"
    /\ UNCHANGED <<stage_state, appearance_done, attack_enabled, stage_prev>>
    /\ UNCHANGED <<enemyVars, utilVars>>

NextStage ==
    \/ start_next_stage
    \/ \E spawned \in 0..MaxAlive, finish \in BOOLEAN, died \in 0..MaxAlive :
          StageUpdate(spawned, finish, died)
    \/ StageCheckCollision
    \/ StageSpawnCapturedFighter

SpecStage == InitStage /\ [][NextStage]_vars

(***************************************************************************)
(* Fixed-point math (util/math.rs) and screen constants (app/consts.rs).   *)
(***************************************************************************)
ONE_BIT == 8
ONE == 256
ANGLE == 256
HEIGHT == 288
FULL_TURN == ANGLE * ONE

Vec(x, y) == <<x, y>>
VAdd(a, b) == <<a[1] + b[1], a[2] + b[2]>>
VSub(a, b) == <<a[1] - b[1], a[2] - b[2]>>
ZERO_VEC == <<0, 0>>

Abs(x) == IF x < 0 THEN -x ELSE x
square(x) == x * x
clamp(v, lo, hi) == IF v < lo THEN lo ELSE IF v > hi THEN hi ELSE v
\* Rust's / on i32 truncates toward zero.
TruncDiv(a, b) == IF a >= 0 THEN a \div b ELSE -((-a) \div b)
\* Rust's >> on i32 is an arithmetic shift: it rounds toward minus infinity.
Shr(a, bits) == a \div (2 ^ bits)

normalize_angle(angle) ==
    LET a == angle % FULL_TURN
    IN  IF a >= FULL_TURN \div 2 THEN a - FULL_TURN ELSE a

diff_angle(target, base) == normalize_angle(target - base)

\* atan2_lut(y, x): the angle of the direction (x, y), 0 is straight up and
\* a quarter turn is to the right; the table has one entry per octant here.
atan2_lut(y, x) ==
    LET ax == Abs(x)
        ay == Abs(y)
        eighth == FULL_TURN \div 8
    IN  IF x = 0 /\ y = 0 THEN 0
        ELSE IF 2 * ax <= ay
             THEN (IF y > 0 THEN 0
                   ELSE IF x >= 0 THEN 4 * eighth ELSE -4 * eighth)
        ELSE IF 2 * ay <= ax
             THEN (IF x > 0 THEN 2 * eighth ELSE -2 * eighth)
        ELSE IF x > 0
             THEN (IF y > 0 THEN eighth ELSE 3 * eighth)
        ELSE (IF y > 0 THEN -eighth ELSE -3 * eighth)

\* calc_velocity(angle, speed): the step of length speed in direction angle,
\* with the sine and cosine tables reduced to one entry per octant.
calc_velocity(angle, speed) ==
    LET eighth == FULL_TURN \div 8
        oct == ((angle + eighth \div 2) % FULL_TURN) \div eighth
        diag == TruncDiv(speed * 181, ONE)
    IN  CASE oct = 0 -> Vec(0, -speed)
          [] oct = 1 -> Vec(diag, -diag)
          [] oct = 2 -> Vec(speed, 0)
          [] oct = 3 -> Vec(diag, diag)
          [] oct = 4 -> Vec(0, speed)
          [] oct = 5 -> Vec(-diag, diag)
          [] oct = 6 -> Vec(-speed, 0)
          [] oct = 7 -> Vec(-diag, -diag)

(***************************************************************************)
(* Formation grid (formation.rs): slot positions, swinging by one phase    *)
(* per update.                                                             *)
(***************************************************************************)
FORMATION_BASE_X == 96
FORMATION_BASE_Y == 120
FormationPhases == 2

formation_pos(phase, fi) ==
    Vec((FORMATION_BASE_X + 16 * fi[1] + phase) * ONE,
        (FORMATION_BASE_Y + 16 * fi[2]) * ONE)

(***************************************************************************)
(* Enemy (enemy.rs).                                                       *)
(***************************************************************************)
MAX_TROOPS == 3
OWL_DESTROY_SHOT_WAIT == 3 * 60
Y_COUNT == 6

EnemyType == {"Bee", "Butterfly", "Owl", "CapturedFighter"}
EnemyState == {"None", "Appearance", "MoveToFormation", "Assault", "Formation",
               "Attack", "Troop"}
CapturingState == {"None", "Attacking", "BeamTracting"}

None == <<>>
NoEnemy == [enemy_type |-> "none"]
NoTraj == [table |-> "none", step |-> 0, pos |-> ZERO_VEC, flip_x |-> FALSE]
NoBeam == [state |-> "none", count |-> 0, size_count |-> 0, pos |-> ZERO_VEC]
NoWait == -1

\* ENEMY_VTABLE[..].life
vtable_life(enemy_type) == IF enemy_type = "Owl" THEN 2 ELSE 1

\* Enemy::new
EnemyNew(enemy_type, pos, angle, speed) ==
    [enemy_type |-> enemy_type,
     state |-> "None",
     life |-> vtable_life(enemy_type),
     pos |-> pos,
     angle |-> angle,
     speed |-> speed,
     vangle |-> 0,
     formation_index |-> <<255, 255>>,
     traj |-> NoTraj,
     shot_wait |-> NoWait,
     update_fn |-> "update_none",
     count |-> 0,
     attack_frame_count |-> 0,
     target_pos |-> ZERO_VEC,
     tractor_beam |-> NoBeam,
     capturing_state |-> "None",
     troops |-> <<None, None, None>>,
     copy_angle_to_troops |-> TRUE,
     disappeared |-> FALSE]

\* Enemy::is_ghost
is_ghost(me) == me.life = 0

\* Enemy::set_state_with_fn
set_state_with_fn(me, state, update_fn) ==
    [me EXCEPT !.state = state, !.update_fn = update_fn]

\* Enemy::set_state: the update function of each state; Attack is illegal.
set_state_fn(state) ==
    CASE state \in {"None", "Troop"} -> "update_none"
      [] state = "Appearance" -> "update_trajectory"
      [] state = "MoveToFormation" -> "update_move_to_formation"
      [] state = "Assault" -> "update_assault"
      [] state = "Formation" -> "update_formation"
      [] state = "Attack" -> "exit"

set_state(me, state) == set_state_with_fn(me, state, set_state_fn(state))

\* Enemy::set_to_troop
set_to_troop(me) == set_state(me, "Troop")

\* Enemy::set_to_formation
set_to_formation(me) ==
    set_state([me EXCEPT !.speed = 0,
                         !.angle = normalize_angle(me.angle),
                         !.vangle = 0,
                         !.copy_angle_to_troops = TRUE,
                         !.disappeared = (me.disappeared \/ is_ghost(me))],
              "Formation")

\* Enemy::add_troop: the first free troop slot takes the index.
add_troop(me, fi) ==
    IF \E i \in 1..MAX_TROOPS : me.troops[i] = None
    THEN LET slot == CHOOSE i \in 1..MAX_TROOPS :
                        /\ me.troops[i] = None
                        /\ \A j \in 1..(i - 1) : me.troops[j] # None
         IN  [me EXCEPT !.troops[slot] = fi]
    ELSE me


(***************************************************************************)
(* Trajectory interpreter (traj.rs, traj_command_table.rs): a table is run *)
(* one command per update; each command moves the enemy by the table's     *)
(* step and sets its angle and speed.                                      *)
(***************************************************************************)
TRAJ_SPEED == 2 * ONE
RUSH_DIVE == 82

TrajTables == {"APPEARANCE_TABLE", "BEE_ATTACK_TABLE", "BEE_ATTACK_RUSH_CONT_TABLE",
               "BEE_RUSH_ATTACK_TABLE", "BUTTERFLY_ATTACK_TABLE",
               "BUTTERFLY_RUSH_ATTACK_TABLE", "OWL_ATTACK_TABLE",
               "OWL_RUSH_ATTACK_TABLE"}

\* The move of command number step of a table.  An appearance climbs; an
\* attack dives and its last command brings the enemy back in above the place
\* it left; a rush attack dives straight down.
TrajStep(table, step) ==
    CASE table = "APPEARANCE_TABLE" -> Vec(2 * ONE, -4 * ONE)
      [] table \in {"BEE_ATTACK_TABLE", "BUTTERFLY_ATTACK_TABLE", "OWL_ATTACK_TABLE"} ->
            IF step < TrajLen - 1 THEN Vec(2 * ONE, 4 * ONE)
            ELSE Vec(-2 * (TrajLen - 1) * ONE, (-4 * (TrajLen - 1) + 8) * ONE)
      [] OTHER -> Vec(0, RUSH_DIVE * ONE)

\* The heading command number step leaves the enemy with: down while it
\* dives, up when it comes back in.
TrajAngle(table, step) ==
    IF table = "APPEARANCE_TABLE" THEN 0
    ELSE IF table \in {"BEE_ATTACK_TABLE", "BUTTERFLY_ATTACK_TABLE", "OWL_ATTACK_TABLE"}
            /\ step >= TrajLen - 1 THEN 0
    ELSE FULL_TURN \div 2

\* Traj::new followed by Traj::set_pos
TrajNew(table, flip_x, pos) ==
    [table |-> table, step |-> 0, pos |-> pos, flip_x |-> flip_x]

\* Traj::update: run one command; flip_x mirrors the horizontal move, and a
\* dive that leaves the screen at the bottom comes back in at the top.
TrajUpdate(traj) ==
    LET d == TrajStep(traj.table, traj.step)
        dx == IF traj.flip_x THEN -d[1] ELSE d[1]
        p == VAdd(traj.pos, Vec(dx, d[2]))
    IN  [traj EXCEPT !.step = traj.step + 1,
                     !.pos = IF p[2] >= (HEIGHT + 8) * ONE
                             THEN Vec(p[1], p[2] - (HEIGHT + 40) * ONE) ELSE p]

\* The result of Traj::update: whether the table is still running.
TrajCont(traj) == traj.step < TrajLen

(***************************************************************************)
(* Tractor beam (tractor_beam.rs; phases as in do_move_tractor_beam).      *)
(***************************************************************************)
TRACTOR_BEAM_SPRITE_COUNT == 3
TRACTOR_BEAM_FULL_TICKS == 3 * 60
TRACTOR_BEAM_RANGE == 24 * ONE

\* TractorBeam::new
TractorBeamNew(pos) ==
    [state |-> "Opening", count |-> 0, size_count |-> 0, pos |-> pos]

\* TractorBeam::update: Opening grows to Full, Full times out to Closing,
\* Closing shrinks to Closed; Capturing waits for close_capture.
TractorBeamUpdate(tb) ==
    CASE tb.state = "Opening" ->
            LET pn == tb.size_count \div ONE
                sz == tb.size_count + ONE \div 3
                an == sz \div ONE
            IN  IF an # pn /\ an >= TRACTOR_BEAM_SPRITE_COUNT
                THEN [tb EXCEPT !.size_count = an * ONE, !.state = "Full", !.count = 0]
                ELSE [tb EXCEPT !.size_count = sz]
      [] tb.state = "Full" ->
            IF tb.count + 1 >= TRACTOR_BEAM_FULL_TICKS
            THEN [tb EXCEPT !.count = tb.count + 1, !.state = "Closing"]
            ELSE [tb EXCEPT !.count = tb.count + 1]
      [] tb.state = "Closing" ->
            LET pn == (tb.size_count + ONE - 1) \div ONE
                sz == IF tb.size_count > ONE \div 3
                      THEN tb.size_count - ONE \div 3 ELSE 0
                an == (sz + ONE - 1) \div ONE
            IN  IF an # pn /\ an = 0
                THEN [tb EXCEPT !.size_count = sz, !.state = "Closed"]
                ELSE [tb EXCEPT !.size_count = sz]
      [] OTHER -> tb

\* TractorBeam::closed
tractor_beam_closed(tb) == tb.state = "Closed"

\* The player at pos is within the beam's horizontal range.
in_beam_range(tb, pos) == Abs(pos[1] - tb.pos[1]) <= TRACTOR_BEAM_RANGE

\* TractorBeam::can_capture: a fully open beam with the player in range.
tractor_beam_can_capture(tb, pos) == tb.state = "Full" /\ in_beam_range(tb, pos)

\* TractorBeam::start_capture
tractor_beam_start_capture(tb) == [tb EXCEPT !.state = "Capturing", !.count = 0]

\* TractorBeam::close_capture
tractor_beam_close_capture(tb) == [tb EXCEPT !.state = "Closing"]

(***************************************************************************)
(* The world an enemy's operations act on: the enemy arena (en), the event *)
(* queue of the frame (ev) and the stage-wide shot pause.  acc holds what  *)
(* the Accessor answers during this frame.                                 *)
(***************************************************************************)
OwlFi == <<1, 1>>
BeeFi == <<0, 2>>
ButterflyFi == <<2, 2>>
CapturedFi == <<1, 0>>
Slots == {CapturedFi, OwlFi, BeeFi, ButterflyFi}
SlotOrder == <<CapturedFi, OwlFi, BeeFi, ButterflyFi>>

\* Accessor::get_enemy_at: the enemy at a slot, if there is one.
exists_at(w, fi) ==
    /\ fi \in Slots
    /\ w.en[fi].enemy_type # "none"
    /\ ~w.en[fi].disappeared

push(w, event) == [w EXCEPT !.ev = Append(w.ev, event)]

setme(w, fi, me) == [w EXCEPT !.en[fi] = me]

TroopSet(me) == {me.troops[i] : i \in 1..MAX_TROOPS} \ {None}

\* live_troops that counts a troop slot without looking the enemy up.
live_troops_unchecked(w, me) ==
    \E t \in TroopSet(me) :
        t \in Slots /\ w.en[t].enemy_type # "CapturedFighter"

\* Enemy::live_troops: a troop that exists and is not a captured fighter.
live_troops(w, me) ==
    \E t \in TroopSet(me) :
        exists_at(w, t) /\ w.en[t].enemy_type # "CapturedFighter"

\* Enemy::update_troops that leaves the troops where they are.
update_troops_still(w, fi, add, angle_opt) ==
    LET me == w.en[fi]
    IN  [w EXCEPT !.en = [t \in Slots |->
            IF t \in TroopSet(me) /\ exists_at(w, t)
            THEN [w.en[t] EXCEPT !.angle = IF angle_opt = None THEN w.en[t].angle
                                           ELSE angle_opt[1]]
            ELSE w.en[t]]]

\* Enemy::update_troops and update_troop: every live troop moves by add and,
\* when angle_opt is given, takes the leader's angle.
update_troops(w, fi, add, angle_opt) ==
    LET me == w.en[fi]
    IN  [w EXCEPT !.en = [t \in Slots |->
            IF t \in TroopSet(me) /\ exists_at(w, t)
            THEN [w.en[t] EXCEPT !.pos = VAdd(w.en[t].pos, add),
                                 !.angle = IF angle_opt = None THEN w.en[t].angle
                                           ELSE angle_opt[1]]
            ELSE w.en[t]]]

\* Enemy::release_troops: every troop that exists goes to formation, every
\* troop slot is emptied.
release_troops(w, fi) ==
    LET me == w.en[fi]
    IN  [w EXCEPT !.en = [t \in Slots |->
            IF t = fi THEN [me EXCEPT !.troops = <<None, None, None>>]
            ELSE IF t \in TroopSet(me) /\ exists_at(w, t)
            THEN set_to_formation(w.en[t])
            ELSE w.en[t]]]

\* Enemy::remove_destroyed_troops
remove_destroyed_troops(w, fi) ==
    LET me == w.en[fi]
    IN  setme(w, fi, [me EXCEPT !.troops = [i \in 1..MAX_TROOPS |->
            IF me.troops[i] # None /\ ~exists_at(w, me.troops[i])
            THEN None ELSE me.troops[i]]])


\* Enemy::choose_troops that takes every neighbour, whatever its state.
choose_troops_any_state(w, fi) ==
    LET indices == << <<fi[1] - 1, fi[2] + 1>>, <<fi[1] + 1, fi[2] + 1>>,
                      <<fi[1], fi[2] - 1>> >>
        pick(me, i) == IF exists_at(w, indices[i])
                       THEN add_troop(me, indices[i]) ELSE me
        me3 == pick(pick(pick(w.en[fi], 1), 2), 3)
    IN  [w EXCEPT !.en = [t \in Slots |->
            IF t = fi THEN me3
            ELSE IF t \in TroopSet(me3) /\ exists_at(w, t) THEN set_to_troop(w.en[t])
            ELSE w.en[t]]]

\* Enemy::choose_troops: the neighbours in Formation state become troops.
choose_troops(w, fi) ==
    LET indices == << <<fi[1] - 1, fi[2] + 1>>, <<fi[1] + 1, fi[2] + 1>>,
                      <<fi[1], fi[2] - 1>> >>
        pick(me, i) == IF exists_at(w, indices[i]) /\ w.en[indices[i]].state = "Formation"
                       THEN add_troop(me, indices[i]) ELSE me
        me3 == pick(pick(pick(w.en[fi], 1), 2), 3)
    IN  [w EXCEPT !.en = [t \in Slots |->
            IF t = fi THEN me3
            ELSE IF t \in TroopSet(me3) /\ exists_at(w, t) THEN set_to_troop(w.en[t])
            ELSE w.en[t]]]


(***************************************************************************)
(* Enemy operations.                                                       *)
(***************************************************************************)
\* Enemy::update_move_to_formation: TRUE while the target is further away
\* than one step of the current speed.
move_to_formation_far(me, acc) ==
    LET diff == VSub(formation_pos(acc.phase, me.formation_index), me.pos)
        sq_distance == square(Shr(diff[1], ONE_BIT \div 2)) + square(Shr(diff[2], ONE_BIT \div 2))
    IN  sq_distance > square(Shr(me.speed, ONE_BIT \div 2))

\* Enemy::update_move_to_formation: turn toward the slot, or land on it.
enemy_update_move_to_formation(me, acc) ==
    LET target == formation_pos(acc.phase, me.formation_index)
        diff == VSub(target, me.pos)
    IN  IF move_to_formation_far(me, acc)
        THEN LET dlimit == TruncDiv(me.speed * 5, 3)
                 d == diff_angle(atan2_lut(-diff[2], diff[1]), me.angle)
             IN  [me EXCEPT !.angle = me.angle + clamp(d, -dlimit, dlimit), !.vangle = 0]
        ELSE [me EXCEPT !.pos = target, !.speed = 0, !.capturing_state = "None"]

\* Enemy::rush_attack
rush_traj_table(enemy_type) ==
    CASE enemy_type = "Bee" -> "BEE_RUSH_ATTACK_TABLE"
      [] enemy_type = "Butterfly" -> "BUTTERFLY_RUSH_ATTACK_TABLE"
      [] OTHER -> "OWL_RUSH_ATTACK_TABLE"

rush_attack(me) ==
    set_state_with_fn(
        [me EXCEPT !.count = 0, !.attack_frame_count = 0,
                   !.traj = TrajNew(rush_traj_table(me.enemy_type),
                                    me.formation_index[1] >= 5, me.pos)],
        "Attack", "update_attack_traj")

\* Enemy::update_attack that stops shooting before the last interval boundary.
update_attack_before_last(w, fi, acc) ==
    LET me == [w.en[fi] EXCEPT !.attack_frame_count = @ + 1]
        n == 2 + acc.stage_no \div 8
        shot_count == IF n < 5 THEN n ELSE 5
        shot_interval == 20 - shot_count * 2
        w1 == setme(w, fi, me)
        shots == <<<<"EneShot", fi>>>> \o
                 SelectSeq([i \in 1..MAX_TROOPS |-> <<"EneShot", me.troops[i]>>],
                           LAMBDA e : e[2] # None /\ exists_at(w, e[2]))
    IN  IF /\ me.attack_frame_count < shot_interval * shot_count
           /\ me.attack_frame_count % shot_interval = 0
        THEN [w1 EXCEPT !.ev = w.ev \o shots]
        ELSE w1

\* Enemy::update_attack: shots on the first shot_count interval boundaries.
update_attack(w, fi, acc) ==
    LET me == [w.en[fi] EXCEPT !.attack_frame_count = @ + 1]
        n == 2 + acc.stage_no \div 8
        shot_count == IF n < 5 THEN n ELSE 5
        shot_interval == 20 - shot_count * 2
        w1 == setme(w, fi, me)
        shots == <<<<"EneShot", fi>>>> \o
                 SelectSeq([i \in 1..MAX_TROOPS |-> <<"EneShot", me.troops[i]>>],
                           LAMBDA e : e[2] # None /\ exists_at(w, e[2]))
    IN  IF /\ me.attack_frame_count <= shot_interval * shot_count
           /\ me.attack_frame_count % shot_interval = 0
        THEN [w1 EXCEPT !.ev = w.ev \o shots]
        ELSE w1

\* update_trajectory that sends an enemy to Assault at the end of its attack.
update_trajectory_to_assault(w, fi, acc) ==
    LET me == w.en[fi]
        has_traj == me.traj.table # "none"
        follow(traj) ==
            [me EXCEPT !.traj = traj, !.pos = traj.pos,
                       !.angle = TrajAngle(traj.table, me.traj.step),
                       !.speed = TRAJ_SPEED, !.vangle = 0]
        shot(moved) ==
            IF has_traj /\ moved.shot_wait = 0 THEN push(w, <<"EneShot", fi>>) ELSE w
        wait(moved) ==
            IF ~has_traj \/ moved.shot_wait = NoWait THEN moved
            ELSE IF moved.shot_wait > 0 THEN [moved EXCEPT !.shot_wait = @ - 1]
            ELSE [moved EXCEPT !.shot_wait = NoWait]
        leave(dropped) ==
            IF dropped.state = "Attack" \/ dropped.formation_index[2] >= Y_COUNT
            THEN set_state([dropped EXCEPT !.target_pos = acc.assault_target,
                                           !.vangle = 0], "Assault")
            ELSE set_state(dropped, "MoveToFormation")
        finish(w1, waited, cont) ==
            IF cont THEN setme(w1, fi, waited)
            ELSE setme(w1, fi, leave([waited EXCEPT !.traj = NoTraj]))
        run(moved, cont) == finish(shot(moved), wait(moved), cont)
        advance(traj) == run(follow(traj), TrajCont(traj))
    IN  IF has_traj THEN advance(TrajUpdate(me.traj)) ELSE run(me, FALSE)

\* update_trajectory that keeps the exhausted trajectory.
update_trajectory_keeps_traj(w, fi, acc) ==
    LET me == w.en[fi]
        has_traj == me.traj.table # "none"
        follow(traj) ==
            [me EXCEPT !.traj = traj, !.pos = traj.pos,
                       !.angle = TrajAngle(traj.table, me.traj.step),
                       !.speed = TRAJ_SPEED, !.vangle = 0]
        shot(moved) ==
            IF has_traj /\ moved.shot_wait = 0 THEN push(w, <<"EneShot", fi>>) ELSE w
        wait(moved) ==
            IF ~has_traj \/ moved.shot_wait = NoWait THEN moved
            ELSE IF moved.shot_wait > 0 THEN [moved EXCEPT !.shot_wait = @ - 1]
            ELSE [moved EXCEPT !.shot_wait = NoWait]
        leave(dropped) ==
            IF dropped.state = "Appearance" /\ dropped.formation_index[2] >= Y_COUNT
            THEN set_state([dropped EXCEPT !.target_pos = acc.assault_target,
                                           !.vangle = 0], "Assault")
            ELSE set_state(dropped, "MoveToFormation")
        finish(w1, waited, cont) ==
            IF cont THEN setme(w1, fi, waited)
            ELSE setme(w1, fi, leave(waited))
        run(moved, cont) == finish(shot(moved), wait(moved), cont)
        advance(traj) == run(follow(traj), TrajCont(traj))
    IN  IF has_traj THEN advance(TrajUpdate(me.traj)) ELSE run(me, FALSE)

\* update_trajectory that joins the formation from the row after the last.
update_trajectory_past_last_row(w, fi, acc) ==
    LET me == w.en[fi]
        has_traj == me.traj.table # "none"
        follow(traj) ==
            [me EXCEPT !.traj = traj, !.pos = traj.pos,
                       !.angle = TrajAngle(traj.table, me.traj.step),
                       !.speed = TRAJ_SPEED, !.vangle = 0]
        shot(moved) ==
            IF has_traj /\ moved.shot_wait = 0 THEN push(w, <<"EneShot", fi>>) ELSE w
        wait(moved) ==
            IF ~has_traj \/ moved.shot_wait = NoWait THEN moved
            ELSE IF moved.shot_wait > 0 THEN [moved EXCEPT !.shot_wait = @ - 1]
            ELSE [moved EXCEPT !.shot_wait = NoWait]
        leave(dropped) ==
            IF dropped.state = "Appearance" /\ dropped.formation_index[2] > Y_COUNT
            THEN set_state([dropped EXCEPT !.target_pos = acc.assault_target,
                                           !.vangle = 0], "Assault")
            ELSE set_state(dropped, "MoveToFormation")
        finish(w1, waited, cont) ==
            IF cont THEN setme(w1, fi, waited)
            ELSE setme(w1, fi, leave([waited EXCEPT !.traj = NoTraj]))
        run(moved, cont) == finish(shot(moved), wait(moved), cont)
        advance(traj) == run(follow(traj), TrajCont(traj))
    IN  IF has_traj THEN advance(TrajUpdate(me.traj)) ELSE run(me, FALSE)

\* update_trajectory: run the trajectory; when it is exhausted drop it and
\* go to Assault (appearance beyond the last row) or MoveToFormation.
update_trajectory(w, fi, acc) ==
    LET me == w.en[fi]
        has_traj == me.traj.table # "none"
        follow(traj) ==
            [me EXCEPT !.traj = traj, !.pos = traj.pos,
                       !.angle = TrajAngle(traj.table, me.traj.step),
                       !.speed = TRAJ_SPEED, !.vangle = 0]
        shot(moved) ==
            IF has_traj /\ moved.shot_wait = 0 THEN push(w, <<"EneShot", fi>>) ELSE w
        wait(moved) ==
            IF ~has_traj \/ moved.shot_wait = NoWait THEN moved
            ELSE IF moved.shot_wait > 0 THEN [moved EXCEPT !.shot_wait = @ - 1]
            ELSE [moved EXCEPT !.shot_wait = NoWait]
        leave(dropped) ==
            IF dropped.state = "Appearance" /\ dropped.formation_index[2] >= Y_COUNT
            THEN set_state([dropped EXCEPT !.target_pos = acc.assault_target,
                                           !.vangle = 0], "Assault")
            ELSE set_state(dropped, "MoveToFormation")
        finish(w1, waited, cont) ==
            IF cont THEN setme(w1, fi, waited)
            ELSE setme(w1, fi, leave([waited EXCEPT !.traj = NoTraj]))
        run(moved, cont) == finish(shot(moved), wait(moved), cont)
        advance(traj) == run(follow(traj), TrajCont(traj))
    IN  IF has_traj THEN advance(TrajUpdate(me.traj)) ELSE run(me, FALSE)

\* update_move_to_formation that settles without releasing the troops.
update_move_to_formation_keeps_troops(w, fi, acc) ==
    LET me == w.en[fi]
        w1 == setme(w, fi, enemy_update_move_to_formation(me, acc))
    IN  IF move_to_formation_far(me, acc) THEN w1
        ELSE setme(w1, fi, set_to_formation(w1.en[fi]))

\* update_move_to_formation: on arrival release the troops and settle.
update_move_to_formation(w, fi, acc) ==
    LET me == w.en[fi]
        w1 == setme(w, fi, enemy_update_move_to_formation(me, acc))
    IN  IF move_to_formation_far(me, acc) THEN w1
        ELSE LET w2 == release_troops(w1, fi)
             IN  setme(w2, fi, set_to_formation(w2.en[fi]))

\* update_assault
update_assault(w, fi, acc) ==
    LET me == w.en[fi]
        diff == VSub(me.target_pos, me.pos)
        DLIMIT == 5 * ONE
        d == diff_angle(atan2_lut(-diff[2], diff[1]), me.angle)
    IN  setme(w, fi,
            IF d < -DLIMIT THEN [me EXCEPT !.angle = @ - DLIMIT]
            ELSE IF d > DLIMIT THEN [me EXCEPT !.angle = @ + DLIMIT]
            ELSE [me EXCEPT !.angle = @ + d, !.update_fn = "update_assault2"])

\* update_assault2
update_assault2(w, fi, acc) ==
    LET me == w.en[fi]
    IN  IF me.pos[2] >= (HEIGHT + 8) * ONE
        THEN setme(w, fi, [me EXCEPT !.disappeared = TRUE])
        ELSE w

\* update_formation leaving the position where it was.
update_formation_unpinned(w, fi, acc) ==
    LET me == w.en[fi]
        ang == FULL_TURN \div 128
    IN  setme(w, fi, [me EXCEPT !.angle = me.angle - clamp(me.angle, -ang, ang)])

\* update_formation that turns by the whole step whatever angle is left.
update_formation_whole_step(w, fi, acc) ==
    LET me == w.en[fi]
        ang == FULL_TURN \div 128
    IN  setme(w, fi, [me EXCEPT !.pos = formation_pos(acc.phase, me.formation_index),
                                !.angle = IF me.angle > 0 THEN me.angle - ang
                                          ELSE IF me.angle < 0 THEN me.angle + ang
                                          ELSE 0])

\* update_formation: pin to the slot, let the angle decay.
update_formation(w, fi, acc) ==
    LET me == w.en[fi]
        ang == FULL_TURN \div 128
    IN  setme(w, fi, [me EXCEPT !.pos = formation_pos(acc.phase, me.formation_index),
                                !.angle = me.angle - clamp(me.angle, -ang, ang)])

\* update_bee_attack with the rush continuation left out.
update_bee_attack_norush(w, fi, acc) ==
    update_trajectory(update_attack(w, fi, acc), fi, acc)

\* update_bee_attack: at the end of the attack table a Bee continues with
\* the rush continuation table when the stage is in rush.
update_bee_attack(w, fi, acc) ==
    LET rush(w1, me) ==
            IF me.state # "Attack" /\ acc.is_rush
            THEN push(setme(w1, fi,
                        set_state_with_fn(
                            [me EXCEPT !.traj = TrajNew("BEE_ATTACK_RUSH_CONT_TABLE",
                                                        me.formation_index[1] >= 5, me.pos)],
                            "Attack", "update_attack_traj")),
                      <<"PlaySe", fi>>)
            ELSE w1
        next(w1) == rush(w1, w1.en[fi])
    IN  next(update_trajectory(update_attack(w, fi, acc), fi, acc))

\* update_attack_traj that looks at the rush mode before the enemy type.
update_attack_traj_rush_first(w, fi, acc) ==
    LET restart(w2) == push(setme(w2, fi, rush_attack(w2.en[fi])), <<"PlaySe", fi>>)
        next(w1, me) ==
            IF me.state = "Attack" THEN w1
            ELSE IF acc.is_rush
            THEN restart(remove_destroyed_troops(w1, fi))
            ELSE IF me.enemy_type = "CapturedFighter"
            THEN setme(w1, fi, [me EXCEPT !.disappeared = TRUE])
            ELSE w1
        ended(w1) == next(w1, w1.en[fi])
    IN  ended(update_trajectory(update_attack(w, fi, acc), fi, acc))

\* update_attack_traj: at the end of the table a captured fighter disappears,
\* the others restart with the rush table when the stage is in rush.
update_attack_traj(w, fi, acc) ==
    LET restart(w2) == push(setme(w2, fi, rush_attack(w2.en[fi])), <<"PlaySe", fi>>)
        next(w1, me) ==
            IF me.state = "Attack" THEN w1
            ELSE IF me.enemy_type = "CapturedFighter"
            THEN setme(w1, fi, [me EXCEPT !.disappeared = TRUE])
            ELSE IF acc.is_rush
            THEN restart(remove_destroyed_troops(w1, fi))
            ELSE w1
        ended(w1) == next(w1, w1.en[fi])
    IN  ended(update_trajectory(update_attack(w, fi, acc), fi, acc))


\* update_attack_capture: turn toward the point above the player, then at
\* the target height stop and open the tractor beam.
update_attack_capture(w, fi, acc) ==
    LET me == w.en[fi]
        DLIMIT == 4 * ONE
        dpos == VSub(me.target_pos, me.pos)
        ang_limit == FULL_TURN \div 2 - (FULL_TURN * 30) \div 360
        limit(ta) ==
            IF ta >= 0 THEN (IF ta > ang_limit THEN ta ELSE ang_limit)
            ELSE (IF ta < -ang_limit THEN ta ELSE -ang_limit)
        wind(d0) ==
            IF me.vangle > 0 /\ d0 < 0 THEN d0 + FULL_TURN
            ELSE IF me.vangle < 0 /\ d0 > 0 THEN d0 - FULL_TURN
            ELSE d0
        turn(target_angle, d) ==
            IF d >= -DLIMIT /\ d < DLIMIT
            THEN [me EXCEPT !.angle = target_angle, !.vangle = 0]
            ELSE me
        aim(target_angle) ==
            turn(target_angle, wind(diff_angle(target_angle, me.angle)))
        open(me1, pos2) ==
            IF me1.pos[2] >= me1.target_pos[2]
            THEN [me1 EXCEPT !.pos = pos2, !.speed = 0,
                             !.angle = (ANGLE \div 2) * ONE, !.vangle = 0,
                             !.tractor_beam = TractorBeamNew(VAdd(pos2, Vec(0, 8 * ONE))),
                             !.update_fn = "update_attack_capture_beam",
                             !.count = 0]
            ELSE me1
        arrive(me1) == open(me1, Vec(me1.pos[1], me1.target_pos[2]))
    IN  setme(w, fi, arrive(aim(limit(atan2_lut(-dpos[2], dpos[1])))))

\* update_attack_capture_beam that captures without asking the beam.
update_attack_capture_beam_norange(w, fi, acc) ==
    LET me == w.en[fi]
    IN  IF me.tractor_beam.state = "none" THEN w
        ELSE IF tractor_beam_closed(me.tractor_beam)
        THEN setme(w, fi, [me EXCEPT !.tractor_beam = NoBeam,
                                     !.speed = TruncDiv(5 * ONE, 2),
                                     !.update_fn = "update_attack_capture_go_out"])
        ELSE IF acc.can_player_capture
        THEN push(setme(w, fi,
                    [me EXCEPT !.tractor_beam = tractor_beam_start_capture(@),
                               !.capturing_state = "BeamTracting",
                               !.update_fn = "update_attack_capture_start",
                               !.count = 0]),
                  <<"CapturePlayer", fi>>)
        ELSE w

\* update_attack_capture_beam: a closed beam sends the Owl away; a player
\* that can be captured starts the capture.
update_attack_capture_beam(w, fi, acc) ==
    LET me == w.en[fi]
    IN  IF me.tractor_beam.state = "none" THEN w
        ELSE IF tractor_beam_closed(me.tractor_beam)
        THEN setme(w, fi, [me EXCEPT !.tractor_beam = NoBeam,
                                     !.speed = TruncDiv(5 * ONE, 2),
                                     !.update_fn = "update_attack_capture_go_out"])
        ELSE IF acc.can_player_capture
                /\ tractor_beam_can_capture(me.tractor_beam, acc.player_pos)
        THEN push(setme(w, fi,
                    [me EXCEPT !.tractor_beam = tractor_beam_start_capture(@),
                               !.capturing_state = "BeamTracting",
                               !.update_fn = "update_attack_capture_start",
                               !.count = 0]),
                  <<"CapturePlayer", fi>>)
        ELSE w

\* update_attack_capture_go_out that warps the Owl up in the column it is in.
update_attack_capture_go_out_same_column(w, fi, acc) ==
    LET me == w.en[fi]
        target_pos == formation_pos(acc.phase, me.formation_index)
        offset == Vec(0, (-32 - (HEIGHT + 8)) * ONE)
        warped == [me EXCEPT !.pos = VAdd(me.pos, offset)]
    IN  IF me.pos[2] >= (HEIGHT + 8) * ONE
        THEN IF acc.is_rush
             THEN push(setme(w, fi, rush_attack(warped)), <<"PlaySe", fi>>)
             ELSE push(setme(w, fi, [set_state(warped, "MoveToFormation")
                                        EXCEPT !.capturing_state = "None"]),
                       <<"EndCaptureAttack", fi>>)
        ELSE w

\* update_attack_capture_go_out: below the screen the Owl is warped above it
\* and goes back to formation, or attacks again in rush.
update_attack_capture_go_out(w, fi, acc) ==
    LET me == w.en[fi]
        target_pos == formation_pos(acc.phase, me.formation_index)
        offset == Vec(target_pos[1] - me.pos[1], (-32 - (HEIGHT + 8)) * ONE)
        warped == [me EXCEPT !.pos = VAdd(me.pos, offset)]
    IN  IF me.pos[2] >= (HEIGHT + 8) * ONE
        THEN IF acc.is_rush
             THEN push(setme(w, fi, rush_attack(warped)), <<"PlaySe", fi>>)
             ELSE push(setme(w, fi, [set_state(warped, "MoveToFormation")
                                        EXCEPT !.capturing_state = "None"]),
                       <<"EndCaptureAttack", fi>>)
        ELSE w

\* update_attack_capture_start: wait until the player has been pulled in.
update_attack_capture_start(w, fi, acc) ==
    LET me == w.en[fi]
    IN  IF acc.is_player_capture_completed
        THEN setme(w, fi, [me EXCEPT !.tractor_beam = tractor_beam_close_capture(@),
                                     !.update_fn = "update_attack_capture_close_beam",
                                     !.count = 0])
        ELSE w

\* update_attack_capture_close_beam that does not record the new troop.
update_attack_capture_close_beam_notroop(w, fi, acc) ==
    LET me == w.en[fi]
        cfi == <<me.formation_index[1], me.formation_index[2] - 1>>
    IN  IF me.tractor_beam.state # "none" /\ tractor_beam_closed(me.tractor_beam)
        THEN push(push(setme(w, fi,
                    [me EXCEPT !.tractor_beam = NoBeam,
                               !.capturing_state = "Attacking",
                               !.copy_angle_to_troops = FALSE,
                               !.update_fn = "update_attack_capture_capture_done_wait",
                               !.count = 0]),
                  <<"SpawnCapturedFighter", cfi, VAdd(me.pos, Vec(0, 16 * ONE))>>),
                  <<"CapturePlayerCompleted", fi>>)
        ELSE w


\* update_attack_capture_close_beam that keeps the closed beam.
update_attack_capture_close_beam_keeps_beam(w, fi, acc) ==
    LET me == w.en[fi]
        cfi == <<me.formation_index[1], me.formation_index[2] - 1>>
    IN  IF me.tractor_beam.state # "none" /\ tractor_beam_closed(me.tractor_beam)
        THEN push(push(setme(w, fi,
                    [add_troop(me, cfi) EXCEPT
                               !.capturing_state = "Attacking",
                               !.copy_angle_to_troops = FALSE,
                               !.update_fn = "update_attack_capture_capture_done_wait",
                               !.count = 0]),
                  <<"SpawnCapturedFighter", cfi, VAdd(me.pos, Vec(0, 16 * ONE))>>),
                  <<"CapturePlayerCompleted", fi>>)
        ELSE w

\* update_attack_capture_close_beam: when the beam has closed, request the
\* captured fighter, take it as a troop and report the capture.
update_attack_capture_close_beam(w, fi, acc) ==
    LET me == w.en[fi]
        cfi == <<me.formation_index[1], me.formation_index[2] - 1>>
    IN  IF me.tractor_beam.state # "none" /\ tractor_beam_closed(me.tractor_beam)
        THEN push(push(setme(w, fi,
                    [add_troop(me, cfi) EXCEPT
                               !.tractor_beam = NoBeam,
                               !.capturing_state = "Attacking",
                               !.copy_angle_to_troops = FALSE,
                               !.update_fn = "update_attack_capture_capture_done_wait",
                               !.count = 0]),
                  <<"SpawnCapturedFighter", cfi, VAdd(me.pos, Vec(0, 16 * ONE))>>),
                  <<"CapturePlayerCompleted", fi>>)
        ELSE w

\* update_attack_capture_capture_done_wait that leaves one tick early.
update_attack_capture_capture_done_wait_early(w, fi, acc) ==
    LET me == [w.en[fi] EXCEPT !.count = @ + 1]
    IN  setme(w, fi,
            IF me.count >= 119
            THEN [me EXCEPT !.speed = TruncDiv(5 * ONE, 2),
                            !.update_fn = "update_attack_capture_back"]
            ELSE me)

\* update_attack_capture_capture_done_wait: after 120 updates fly back.
update_attack_capture_capture_done_wait(w, fi, acc) ==
    LET me == [w.en[fi] EXCEPT !.count = @ + 1]
    IN  setme(w, fi,
            IF me.count >= 120
            THEN [me EXCEPT !.speed = TruncDiv(5 * ONE, 2),
                            !.update_fn = "update_attack_capture_back"]
            ELSE me)

\* update_attack_capture_back
update_attack_capture_back(w, fi, acc) ==
    LET me == w.en[fi]
        me1 == enemy_update_move_to_formation(me, acc)
    IN  setme(w, fi,
            IF move_to_formation_far(me, acc) THEN me1
            ELSE [me1 EXCEPT !.speed = 0, !.angle = normalize_angle(me1.angle),
                             !.update_fn = "update_attack_capture_push_up"])

\* update_attack_capture_push_up: raise the captured fighter by one unit per
\* update up to 16 units above the Owl, then end the capture sequence.
update_attack_capture_push_up(w, fi, acc) ==
    LET me0 == w.en[fi]
        ang == FULL_TURN \div 128
        me == [me0 EXCEPT !.angle = me0.angle - clamp(me0.angle, -ang, ang)]
        cfi == <<me.formation_index[1], me.formation_index[2] - 1>>
        w1 == setme(w, fi, me)
        topy == me.pos[2] - 16 * ONE
        y == IF exists_at(w, cfi) THEN w.en[cfi].pos[2] - 1 * ONE ELSE 0
        done == exists_at(w, cfi) /\ y <= topy
        w2 == IF exists_at(w, cfi)
              THEN setme(w1, cfi, [w.en[cfi] EXCEPT !.pos[2] = IF done THEN topy ELSE y])
              ELSE w1
    IN  IF done
        THEN LET w3 == release_troops(push(w2, <<"CaptureSequenceEnded", fi>>), fi)
             IN  setme(w3, fi, set_to_formation(w3.en[fi]))
        ELSE w2


\* set_attack that asks set_state for the Attack state.
zako_set_attack_by_set_state(me) ==
    LET table == CASE me.enemy_type = "Bee" -> "BEE_ATTACK_TABLE"
                   [] me.enemy_type = "Butterfly" -> "BUTTERFLY_ATTACK_TABLE"
                   [] OTHER -> "OWL_ATTACK_TABLE"
    IN  set_state(
            [me EXCEPT !.count = 0, !.attack_frame_count = 0,
                       !.traj = TrajNew(table, me.formation_index[1] >= 5, me.pos)],
            "Attack")

\* ENEMY_VTABLE[..].set_attack for Bee, Butterfly and CapturedFighter
\* (bee_set_attack, butterfly_set_attack, captured_fighter_set_attack).
zako_set_attack(me) ==
    LET table == CASE me.enemy_type = "Bee" -> "BEE_ATTACK_TABLE"
                   [] me.enemy_type = "Butterfly" -> "BUTTERFLY_ATTACK_TABLE"
                   [] OTHER -> "OWL_ATTACK_TABLE"
        fn == IF me.enemy_type = "Bee" THEN "update_bee_attack" ELSE "update_attack_traj"
    IN  set_state_with_fn(
            [me EXCEPT !.count = 0, !.attack_frame_count = 0,
                       !.traj = TrajNew(table, me.formation_index[1] >= 5, me.pos)],
            "Attack", fn)

\* ENEMY_VTABLE[Owl].set_attack: a trajectory attack with chosen troops, or
\* a capture attack toward the point above the player.
owl_set_attack(w, fi, capture_attack, acc) ==
    LET me == [w.en[fi] EXCEPT !.count = 0, !.attack_frame_count = 0,
                               !.troops = <<None, None, None>>]
        DLIMIT == 4 * ONE
    IN  IF ~capture_attack
        THEN LET w1 == choose_troops(setme(w, fi, [me EXCEPT !.copy_angle_to_troops = TRUE]), fi)
                 me1 == w1.en[fi]
             IN  setme(w1, fi, set_state_with_fn(
                     [me1 EXCEPT !.traj = TrajNew("OWL_ATTACK_TABLE",
                                                  me1.formation_index[1] >= 5, me1.pos)],
                     "Attack", "update_attack_traj"))
        ELSE setme(w, fi, set_state_with_fn(
                 [me EXCEPT !.capturing_state = "Attacking",
                            !.speed = TruncDiv(3 * ONE, 2),
                            !.angle = 0,
                            !.vangle = IF me.formation_index[1] < 5 THEN -DLIMIT ELSE DLIMIT,
                            !.target_pos = Vec(acc.player_pos[1], (HEIGHT - 16 - 8 - 88) * ONE)],
                 "Attack", "update_attack_capture"))

\* Enemy::set_attack
set_attack(w, fi, capture_attack, acc) ==
    push(IF w.en[fi].enemy_type = "Owl" THEN owl_set_attack(w, fi, capture_attack, acc)
         ELSE setme(w, fi, zako_set_attack(w.en[fi])),
         <<"PlaySe", fi>>)

\* ENEMY_VTABLE[..].calc_point
calc_point(me) ==
    CASE me.enemy_type = "Bee" -> IF me.state = "Formation" THEN 50 ELSE 100
      [] me.enemy_type = "Butterfly" -> IF me.state = "Formation" THEN 80 ELSE 160
      [] me.enemy_type = "CapturedFighter" -> IF me.state = "Formation" THEN 500 ELSE 1000
      [] me.enemy_type = "Owl" ->
            IF me.state = "Formation" THEN 150
            ELSE LET cap_fi == <<me.formation_index[1], me.formation_index[2] - 1>>
                     count == Cardinality({i \in 1..MAX_TROOPS :
                                  me.troops[i] # None /\ me.troops[i] # cap_fi})
                 IN  (2 ^ count) * 400

\* owl_set_damage that releases every capture with EndCaptureAttack.
owl_set_damage_one_event(w, fi, power) ==
    LET me == w.en[fi]
    IN  IF me.life > power
        THEN [w |-> setme(w, fi, [me EXCEPT !.life = @ - power]),
              killed |-> FALSE, point |-> 0]
        ELSE LET dead == [me EXCEPT !.life = 0]
                 w1 == setme(w, fi, [dead EXCEPT !.capturing_state = "None"])
                 w2 == push(w1, <<"EndCaptureAttack", fi>>)
             IN  [w |-> [w2 EXCEPT !.shot_paused = OWL_DESTROY_SHOT_WAIT],
                  killed |-> ~live_troops(w, dead),
                  point |-> calc_point(dead)]

\* owl_set_damage that lets a lethally hit Owl be killed whatever its troops.
owl_set_damage_noghost(w, fi, power) ==
    LET me == w.en[fi]
    IN  IF me.life > power
        THEN [w |-> setme(w, fi, [me EXCEPT !.life = @ - power]),
              killed |-> FALSE, point |-> 0]
        ELSE LET dead == [me EXCEPT !.life = 0]
                 w1 == setme(w, fi, [dead EXCEPT !.capturing_state = "None"])
             IN  [w |-> [w1 EXCEPT !.shot_paused = OWL_DESTROY_SHOT_WAIT],
                  killed |-> TRUE, point |-> calc_point(dead)]

\* owl_set_damage: a lethally hit Owl with live troops stays as a ghost; its
\* capture is released with the event of its capturing state.
owl_set_damage(w, fi, power) ==
    LET me == w.en[fi]
    IN  IF me.life > power
        THEN [w |-> setme(w, fi, [me EXCEPT !.life = @ - power]),
              killed |-> FALSE, point |-> 0]
        ELSE LET dead == [me EXCEPT !.life = 0]
                 cfi == <<me.formation_index[1], me.formation_index[2] - 1>>
                 w1 == setme(w, fi, [dead EXCEPT !.capturing_state = "None"])
                 w2 == CASE me.capturing_state = "None" ->
                              IF cfi \in TroopSet(me)
                              THEN push(w1, <<"RecapturePlayer", cfi>>) ELSE w1
                         [] me.capturing_state = "Attacking" ->
                              push(w1, <<"EndCaptureAttack", fi>>)
                         [] me.capturing_state = "BeamTracting" ->
                              push(w1, <<"EscapeCapturing", fi>>)
             IN  [w |-> [w2 EXCEPT !.shot_paused = OWL_DESTROY_SHOT_WAIT],
                  killed |-> ~live_troops(w, dead),
                  point |-> calc_point(dead)]

\* bee_set_damage that lets an enemy live through a hit as strong as its life.
zako_set_damage_survives(w, fi, power) ==
    LET me == w.en[fi]
    IN  IF me.life >= power
        THEN [w |-> setme(w, fi, [me EXCEPT !.life = @ - power]),
              killed |-> FALSE, point |-> 0]
        ELSE LET w1 == setme(w, fi, [me EXCEPT !.life = 0])
             IN  [w |-> IF me.enemy_type = "CapturedFighter"
                        THEN push(w1, <<"CapturedFighterDestroyed", fi>>) ELSE w1,
                  killed |-> TRUE,
                  point |-> calc_point(me)]

\* bee_set_damage, and ENEMY_VTABLE[CapturedFighter].set_damage
zako_set_damage(w, fi, power) ==
    LET me == w.en[fi]
    IN  IF me.life > power
        THEN [w |-> setme(w, fi, [me EXCEPT !.life = @ - power]),
              killed |-> FALSE, point |-> 0]
        ELSE LET w1 == setme(w, fi, [me EXCEPT !.life = 0])
             IN  [w |-> IF me.enemy_type = "CapturedFighter"
                        THEN push(w1, <<"CapturedFighterDestroyed", fi>>) ELSE w1,
                  killed |-> TRUE,
                  point |-> calc_point(me)]

\* Enemy::set_damage
set_damage(w, fi, power) ==
    LET r == IF w.en[fi].enemy_type = "Owl" THEN owl_set_damage(w, fi, power)
             ELSE zako_set_damage(w, fi, power)
    IN  IF r.point > 0
        THEN [r EXCEPT !.w = push(r.w, <<"EnemyExplosion", fi>>)]
        ELSE r

\* The update function an enemy currently holds.
apply_update_fn(w, fi, acc) ==
    LET f == w.en[fi].update_fn
    IN  CASE f \in {"update_none", "exit"} -> w    \* after exit nothing runs
          [] f = "update_trajectory" -> update_trajectory(w, fi, acc)
          [] f = "update_move_to_formation" -> update_move_to_formation(w, fi, acc)
          [] f = "update_assault" -> update_assault(w, fi, acc)
          [] f = "update_assault2" -> update_assault2(w, fi, acc)
          [] f = "update_formation" -> update_formation(w, fi, acc)
          [] f = "update_bee_attack" -> update_bee_attack(w, fi, acc)
          [] f = "update_attack_traj" -> update_attack_traj(w, fi, acc)
          [] f = "update_attack_capture" -> update_attack_capture(w, fi, acc)
          [] f = "update_attack_capture_beam" -> update_attack_capture_beam(w, fi, acc)
          [] f = "update_attack_capture_go_out" -> update_attack_capture_go_out(w, fi, acc)
          [] f = "update_attack_capture_start" -> update_attack_capture_start(w, fi, acc)
          [] f = "update_attack_capture_close_beam" ->
                update_attack_capture_close_beam(w, fi, acc)
          [] f = "update_attack_capture_capture_done_wait" ->
                update_attack_capture_capture_done_wait(w, fi, acc)
          [] f = "update_attack_capture_back" -> update_attack_capture_back(w, fi, acc)
          [] f = "update_attack_capture_push_up" -> update_attack_capture_push_up(w, fi, acc)

\* Enemy::update: the update function, the velocity step, the troops, the
\* tractor beam, and the disappearance of a ghost without live troops.
enemy_update(w, fi, acc) ==
    LET prev_pos == w.en[fi].pos
        velocity(me) ==
            [me EXCEPT
               !.pos = VAdd(me.pos, calc_velocity(me.angle + TruncDiv(me.vangle, 2),
                                                  me.speed)),
               !.angle = me.angle + me.vangle]
        step(w1) == setme(w1, fi, velocity(w1.en[fi]))
        troops(w1) ==
            LET me == w1.en[fi]
            IN  update_troops(w1, fi, VSub(me.pos, prev_pos),
                              IF me.copy_angle_to_troops THEN <<me.angle>> ELSE None)
        beam(w2) ==
            LET me == w2.en[fi]
            IN  IF me.tractor_beam.state # "none"
                THEN setme(w2, fi, [me EXCEPT !.tractor_beam = TractorBeamUpdate(@)])
                ELSE w2
        ghost(w3) ==
            LET me == w3.en[fi]
            IN  IF is_ghost(me) /\ ~me.disappeared /\ ~live_troops(w3, me)
                THEN setme(w3, fi, [me EXCEPT !.disappeared = TRUE])
                ELSE w3
    IN  ghost(beam(troops(step(apply_update_fn(w, fi, acc)))))


(***************************************************************************)
(* The frame: the queued events are consumed, the formation swings, the    *)
(* attack manager may start one attack, every enemy is updated in slot     *)
(* order; between two frames a collision may damage an enemy.              *)
(***************************************************************************)
MaxAttackers == 1
Powers == {1, 2}

PLAYER_Y == (HEIGHT - 16 - 8) * ONE
PLAYER_NEAR == Vec((FORMATION_BASE_X + 16) * ONE, PLAYER_Y)
PLAYER_FAR == Vec((FORMATION_BASE_X + 80) * ONE, PLAYER_Y)
PlayerPositions == {PLAYER_NEAR, PLAYER_FAR}

NoDamage == [fi |-> None]

BEE_START == VAdd(formation_pos(0, BeeFi), Vec(-2 * TrajLen * ONE, (4 * TrajLen + 8) * ONE))

\* reset_stable giving every enemy the formation index of the Owl.
StableEnemy_sameindex(enemy_type, fi) ==
    set_to_formation([EnemyNew(enemy_type, formation_pos(0, fi), 0, 0)
                         EXCEPT !.formation_index = OwlFi])

\* create_enemy followed by set_to_formation, as reset_stable spawns it.
StableEnemy(enemy_type, fi) ==
    set_to_formation([EnemyNew(enemy_type, formation_pos(0, fi), 0, 0)
                         EXCEPT !.formation_index = fi])

\* An enemy spawned by the appearance manager: Enemy::set_appearance.
AppearanceEnemy(enemy_type, fi, pos) ==
    set_state([EnemyNew(enemy_type, pos, 0, 0)
                  EXCEPT !.formation_index = fi,
                         !.traj = TrajNew("APPEARANCE_TABLE", fi[1] >= 5, pos)],
              "Appearance")

\* EnemyManager::spawn_captured_fighter
CapturedFighterEnemy(fi, pos) ==
    [set_to_troop(EnemyNew("CapturedFighter", pos, 0, 0)) EXCEPT !.formation_index = fi]

EmptyLog == [CapturePlayer |-> 0, SpawnCapturedFighter |-> 0,
             CapturePlayerCompleted |-> 0, CaptureSequenceEnded |-> 0,
             EndCaptureAttack |-> 0]

InitCommonBase ==
    /\ stage_state = "NORMAL"
    /\ alive_enemy_count = RUSH_THRESHOLD + 1
    /\ appearance_done = TRUE
    /\ attack_enabled = TRUE
    /\ stage_op = "new"
    /\ stage_prev = <<0, "APPEARANCE">>
    /\ event_queue = <<>>
    /\ shot_paused = 0
    /\ formation_phase = 0
    /\ player_pos = PLAYER_NEAR
    /\ player_state = "playing"
    /\ damage_result = NoDamage
    /\ capture_log = EmptyLog

InitCommon ==
    /\ InitCommonBase
    /\ InitUtil

\* An Owl and a Butterfly in formation, a Bee still appearing, and possibly
\* a fighter captured in an earlier stage above the Owl.
Init ==
    /\ InitCommon
    /\ \E captured \in BOOLEAN :
         enemies = [fi \in Slots |->
                    CASE fi = OwlFi -> StableEnemy("Owl", fi)
                      [] fi = ButterflyFi -> StableEnemy("Butterfly", fi)
                      [] fi = BeeFi -> AppearanceEnemy("Bee", fi, BEE_START)
                      [] OTHER -> IF captured THEN StableEnemy("CapturedFighter", fi)
                                  ELSE NoEnemy]

\* An Owl in formation with nothing above it.
InitCapture ==
    /\ InitCommon
    /\ enemies = [fi \in Slots |->
                    IF fi = OwlFi THEN StableEnemy("Owl", fi) ELSE NoEnemy]

\* The consumers of the event queue: the captured fighter is spawned, a
\* recaptured fighter leaves the enemies, the player follows the capture.
RECURSIVE handle_events(_, _)
handle_events(st, evs) ==
    IF evs = <<>> THEN st
    ELSE LET e == Head(evs)
             st1 ==
               CASE e[1] = "SpawnCapturedFighter" ->
                      IF st.en[e[2]].enemy_type = "none"
                      THEN [st EXCEPT !.en[e[2]] = CapturedFighterEnemy(e[2], e[3])]
                      ELSE st
                 [] e[1] = "RecapturePlayer" -> [st EXCEPT !.en[e[2]] = NoEnemy]
                 [] e[1] = "CapturePlayer" -> [st EXCEPT !.player = "capturing"]
                 [] e[1] \in {"CapturePlayerCompleted", "EscapeCapturing"} ->
                      [st EXCEPT !.player = "playing"]
                 [] OTHER -> st
         IN  handle_events(st1, Tail(evs))

\* EnemyManager::update: every enemy in slot order.
RECURSIVE update_enemies(_, _, _)
update_enemies(w, i, acc) ==
    IF i > Len(SlotOrder) THEN w
    ELSE update_enemies(IF exists_at(w, SlotOrder[i])
                        THEN enemy_update(w, SlotOrder[i], acc) ELSE w,
                        i + 1, acc)

CountEvents(evs, name) ==
    Cardinality({i \in 1..Len(evs) : evs[i][1] = name /\ evs[i][2] \in {OwlFi, CapturedFi}})

\* The enemies the stage counts as alive.
AliveCount(en) ==
    Cardinality({fi \in Slots : en[fi].enemy_type # "none" /\ ~en[fi].disappeared})

\* AttackManager: the enemies it has sent out and that are not back yet.
Attackers(en) ==
    {fi \in Slots : en[fi].enemy_type # "none"
                     /\ en[fi].state \in {"Attack", "MoveToFormation"}}

\* AttackManager: it picks an attacker only while every enemy in Formation
\* state sits in its slot.
formation_settled(en, phase) ==
    \A fi \in Slots :
        (en[fi].enemy_type # "none" /\ en[fi].state = "Formation")
            => en[fi].pos = formation_pos(phase, fi)

AttackSlots == {OwlFi, BeeFi, CapturedFi}
TrajAttackChoices == {None} \cup {<<fi, FALSE>> : fi \in AttackSlots}
AttackChoices == TrajAttackChoices \cup {<<OwlFi, TRUE>>}

\* One frame of the stage: StageManager::update after the event queue of the
\* frame before has been consumed.
FrameTarget(att, target) ==
    LET phase == (formation_phase + 1) % FormationPhases
        log0 == IF att # None /\ att[1] = OwlFi THEN EmptyLog ELSE capture_log
        accessor(st) ==
            [phase |-> phase,
             is_rush |-> stage_state = "RUSH",
             player_pos |-> player_pos,
             can_player_capture |-> st.player = "playing",
             is_player_capture_completed |-> st.player = "captured",
             stage_no |-> stage_no,
             assault_target |-> target]
        removed(st) ==
            [fi \in Slots |->
               IF st.en[fi].enemy_type # "none" /\ st.en[fi].disappeared
               THEN NoEnemy ELSE st.en[fi]]
        attack(w0, acc) ==
            IF att = None THEN w0 ELSE set_attack(w0, att[1], att[2], acc)
        updated(en0, acc) ==
            update_enemies(attack([en |-> en0, ev |-> <<>>, shot_paused |-> shot_paused],
                                  acc), 1, acc)
        commit(st, w2, count) ==
            /\ enemies' = w2.en
            /\ event_queue' = w2.ev
            /\ shot_paused' = w2.shot_paused
            /\ player_state' = st.player
            /\ capture_log' = [k \in DOMAIN EmptyLog |->
                                  IF log0[k] + CountEvents(w2.ev, k) > 2 THEN 2
                                  ELSE log0[k] + CountEvents(w2.ev, k)]
            /\ damage_result' = NoDamage
            /\ UNCHANGED player_pos
            /\ alive_enemy_count' = count
            /\ stage_state' = check_stage_state(stage_state, count)
            /\ stage_op' = "update"
            /\ stage_prev' = <<alive_enemy_count, stage_state>>
            /\ UNCHANGED <<appearance_done, attack_enabled, coreUtilVars>>
        counted(st, w2) ==
            commit(st, w2, alive_enemy_count + AliveCount(w2.en) - AliveCount(enemies))
        frame(st, en0) ==
            /\ att # None =>
                  /\ formation_settled(en0, formation_phase)
                  /\ en0[att[1]].enemy_type # "none"
                  /\ en0[att[1]].state = "Formation"
                  /\ ~is_ghost(en0[att[1]])
                  /\ att[2] => (en0[att[1]].enemy_type = "Owl" /\ st.player = "playing"
                                /\ en0[CapturedFi].enemy_type = "none")
                  /\ Cardinality(Attackers(en0)) < MaxAttackers
            /\ counted(st, updated(en0, accessor(st)))
        consumed(st) == frame(st, removed(st))
    IN  /\ formation_phase' = phase
        /\ consumed(handle_events([en |-> enemies, player |-> player_state], event_queue))

\* The positions of the live fighters, the primary one and the dual one.
LivePlayers(primary, dual) == {primary} \cup {dual[i] : i \in DOMAIN dual}

\* The frame with every target the random choice among the live fighters can
\* give to an enemy that starts an assault.
FrameCore(att) ==
    \E target \in LivePlayers(player_pos, dual_player_pos) : FrameTarget(att, target)

\* The frame of a game that runs the dispatch-table enemies only.
Frame(att) ==
    /\ FrameCore(att)
    /\ UNCHANGED <<ecs_owl, game_info>>

\* Collidable::get_collbox that gives a ghost its box too.
get_collbox_of_ghost(me) ==
    <<[top_left |-> VSub(Vec(Shr(me.pos[1] + ONE \div 2, ONE_BIT),
                             Shr(me.pos[2] + ONE \div 2, ONE_BIT)), Vec(6, 6)),
       size |-> Vec(12, 12)]>>

\* Collidable::get_collbox: a box of 12 by 12 around the rounded position,
\* and none for a ghost.
get_collbox(me) ==
    IF ~is_ghost(me)
    THEN <<[top_left |-> VSub(Vec(Shr(me.pos[1] + ONE \div 2, ONE_BIT),
                                  Shr(me.pos[2] + ONE \div 2, ONE_BIT)), Vec(6, 6)),
            size |-> Vec(12, 12)]>>
    ELSE None

\* EnemyManager::check_collision: a hit enemy takes the damage and is removed
\* when it is killed; a ghost has no collision box.
CheckCollision(fi, power) ==
    LET w == [en |-> enemies, ev |-> event_queue, shot_paused |-> shot_paused]
        me == enemies[fi]
        hit(r) ==
            /\ enemies' = IF r.killed THEN [r.w.en EXCEPT ![fi] = NoEnemy] ELSE r.w.en
            /\ event_queue' = r.w.ev
            /\ shot_paused' = r.w.shot_paused
            /\ damage_result' = [fi |-> fi, killed |-> r.killed, point |-> r.point,
                                 lethal |-> me.life <= power,
                                 state |-> me.state,
                                 capturing_state |-> me.capturing_state,
                                 troops |-> TroopSet(me),
                                 live |-> {t \in TroopSet(me) : exists_at(w, t)
                                              /\ w.en[t].enemy_type # "CapturedFighter"}]
            /\ alive_enemy_count' =
                  IF r.killed THEN alive_enemy_count - 1 ELSE alive_enemy_count
    IN  /\ damage_result = NoDamage
        /\ exists_at(w, fi)
        /\ get_collbox(me) # None
        /\ hit(set_damage(w, fi, power))
        /\ UNCHANGED <<formation_phase, player_pos, player_state, capture_log>>
        /\ stage_op' = "check_collision"
        /\ UNCHANGED <<stage_state, appearance_done, attack_enabled, stage_prev, utilVars>>

\* The player moves, dies and comes back, or is pulled into the beam.
MovePlayer ==
    /\ player_state \in {"playing", "dead"}
    /\ player_pos' \in PlayerPositions \ {player_pos}
    /\ UNCHANGED <<enemies, event_queue, shot_paused, formation_phase, player_state,
                   damage_result, capture_log>>
    /\ UNCHANGED <<stageVars, utilVars>>

PlayerDeadOrBack ==
    /\ player_state \in {"playing", "dead"}
    /\ player_state' = IF player_state = "playing" THEN "dead" ELSE "playing"
    /\ UNCHANGED <<enemies, event_queue, shot_paused, formation_phase, player_pos,
                   damage_result, capture_log>>
    /\ UNCHANGED <<stageVars, utilVars>>

PlayerCaptureCompleted ==
    /\ player_state = "capturing"
    /\ player_state' = "captured"
    /\ UNCHANGED <<enemies, event_queue, shot_paused, formation_phase, player_pos,
                   damage_result, capture_log>>
    /\ UNCHANGED <<stageVars, utilVars>>

\* Trajectory attacks of an Owl with its escorts, a Bee and a Butterfly.
Next ==
    \/ \E att \in TrajAttackChoices : Frame(att)
    \/ \E fi \in Slots, power \in Powers : CheckCollision(fi, power)

Spec == Init /\ [][Next]_vars

\* Capture attacks of an Owl against a player that moves, dies and is captured.
NextCapture ==
    \/ \E att \in AttackChoices : Frame(att)
    \/ \E fi \in Slots, power \in Powers : CheckCollision(fi, power)
    \/ MovePlayer
    \/ PlayerDeadOrBack
    \/ PlayerCaptureCompleted

SpecCapture == InitCapture /\ [][NextCapture]_vars


(***************************************************************************)
(* Stage claims.                                                           *)
(***************************************************************************)
(* The move-to-formation loop on its own: one enemy in MoveToFormation     *)
(* state, a formation that does not swing, and Enemy::update once a tick.  *)
(***************************************************************************)
MoveFi == BeeFi
MoveOffsets == {Vec(x * ONE, y * ONE) : x \in {-24, 0, 24}, y \in {0, 24, 48}}
MoveAngles == {0, FULL_TURN \div 4, FULL_TURN \div 2, 3 * (FULL_TURN \div 4)}
MoveSpeeds == {(3 * ONE) \div 2, (5 * ONE) \div 2}

\* What an update of the loop depends on: position, speed, and the heading
\* modulo a full turn.
MoveConfig(me) ==
    [pos |-> me.pos, speed |-> me.speed, angle |-> normalize_angle(me.angle)]

\* An enemy that has just been set to MoveToFormation.
MovingEnemy(fi, pos, angle, speed) ==
    set_state([EnemyNew("Bee", pos, angle, speed) EXCEPT !.formation_index = fi],
              "MoveToFormation")

InitMove ==
    /\ stage_state = "NORMAL"
    /\ alive_enemy_count = RUSH_THRESHOLD + 1
    /\ appearance_done = TRUE
    /\ attack_enabled = TRUE
    /\ stage_op = "new"
    /\ stage_prev = <<0, "APPEARANCE">>
    /\ event_queue = <<>>
    /\ shot_paused = 0
    /\ formation_phase = 0
    /\ player_pos = PLAYER_NEAR
    /\ player_state = "playing"
    /\ damage_result = NoDamage
    /\ capture_log = EmptyLog
    /\ move_ticks = 0
    /\ formation = FormationNew
    /\ attackers = 0
    /\ tick_log = NoTickLog
    /\ old_manager = OldManagerNew
    /\ pad = PadDefault
    /\ InitSide
    /\ \E off \in MoveOffsets, angle \in MoveAngles, speed \in MoveSpeeds :
          LET me == MovingEnemy(MoveFi, VAdd(formation_pos(0, MoveFi), off), angle, speed)
          IN  /\ enemies = [fi \in Slots |-> IF fi = MoveFi THEN me ELSE NoEnemy]
              /\ move_mark = MoveConfig(me)

\* Enemy::update of the moving enemy, the formation standing still.
MoveTick ==
    LET w == [en |-> enemies, ev |-> <<>>, shot_paused |-> shot_paused]
        acc == [phase |-> formation_phase,
                is_rush |-> FALSE,
                player_pos |-> player_pos,
                can_player_capture |-> FALSE,
                is_player_capture_completed |-> FALSE,
                stage_no |-> 0,
                assault_target |-> player_pos]
    IN  /\ move_ticks >= 0
        /\ move_ticks < MaxMoveTicks
        /\ enemies[MoveFi].state = "MoveToFormation"
        /\ enemies' = enemy_update(w, MoveFi, acc).en
        /\ move_ticks' = move_ticks + 1
        /\ UNCHANGED <<event_queue, shot_paused, formation_phase, player_pos,
                       player_state, damage_result, capture_log, move_mark>>
        /\ UNCHANGED <<formation, attackers, tick_log, old_manager, pad, sideVars>>
        /\ UNCHANGED stageVars

NextMove == MoveTick

SpecMove == InitMove /\ [][NextMove]_vars

(***************************************************************************)
(* StageManager::update pass by pass: what each pass does to the managers, *)
(* with the enemies counted as in SpecStage.                               *)
(***************************************************************************)
\* Formation::done_appearance
formation_done_appearance(f) == [f EXCEPT !.done_appearance = TRUE]

\* Formation::update: the swing goes on; once the appearance is done it ends
\* the next time it is back in the middle, and the formation has settled.
formation_update(f) ==
    IF f.moving_pat = "Slide"
    THEN LET count == (f.moving_count + 1) % SwingTicks
         IN  IF f.done_appearance /\ count = 0
             THEN [f EXCEPT !.moving_pat = "Scale", !.moving_count = 0]
             ELSE [f EXCEPT !.moving_count = count]
    ELSE f

\* Formation::is_settle
is_settle(f) == f.moving_pat = "Scale"

\* The state the passes of one update hand on to each other.
TickState ==
    [stage_state |-> stage_state, alive |-> alive_enemy_count,
     done |-> appearance_done, enabled |-> attack_enabled,
     formation |-> formation, attackers |-> attackers,
     trace |-> <<>>, enabled_at |-> tick_log.enabled_at,
     attack_unsettled |-> tick_log.attack_unsettled]

\* StageManager::update_appearance: the new borns are spawned; when the
\* appearance manager is done the stage is NORMAL, the formation is told and
\* the attack manager is enabled.
stage_update_appearance(st, spawned, finish) ==
    LET became == ~st.done /\ finish
        f == IF became THEN formation_done_appearance(st.formation) ELSE st.formation
    IN  [st EXCEPT !.trace = Append(@, "appearance"),
                   !.alive = @ + spawned,
                   !.done = st.done \/ finish,
                   !.stage_state = IF became THEN "NORMAL" ELSE @,
                   !.formation = f,
                   !.enabled = IF became THEN TRUE ELSE @,
                   !.enabled_at = IF became THEN <<is_settle(f)>> ELSE @]

\* StageManager::update_formation
stage_update_formation(st) ==
    [st EXCEPT !.trace = Append(@, "formation"),
               !.formation = formation_update(@)]

\* StageManager::update_attackers: an enabled attack manager may send out an
\* enemy that sits in formation.
stage_update_attackers(st, pick) ==
    LET scheduled == st.enabled /\ pick /\ st.alive > 0 /\ st.attackers < MaxScheduled
    IN  [st EXCEPT !.trace = Append(@, "attack"),
                   !.attackers = IF scheduled THEN @ + 1 ELSE @,
                   !.attack_unsettled = @ \/ (scheduled /\ ~is_settle(st.formation))]

\* EnemyManager::update: enemies that disappear leave the count.
stage_update_enemies(st, died) ==
    [st EXCEPT !.trace = Append(@, "enemies"), !.alive = @ - died]

\* StageManager::check_stage_state on the state the passes hand on.
stage_check_stage_state(st) ==
    [st EXCEPT !.trace = Append(@, "stage_state"),
               !.stage_state = check_stage_state(@, st.alive)]

\* StageManager::update with the stage-state check before the enemy update.
stage_manager_update_reordered(st, spawned, finish, pick, died) ==
    stage_update_enemies(
        stage_check_stage_state(
            stage_update_attackers(
                stage_update_formation(
                    stage_update_appearance(st, spawned, finish)), pick)), died)

\* StageManager::update
stage_manager_update(st, spawned, finish, pick, died) ==
    stage_check_stage_state(
        stage_update_enemies(
            stage_update_attackers(
                stage_update_formation(
                    stage_update_appearance(st, spawned, finish)), pick), died))

\* One update of the stage manager.
StageTick(spawned, finish, pick, died) ==
    LET commit(st) ==
            /\ stage_state' = st.stage_state
            /\ alive_enemy_count' = st.alive
            /\ appearance_done' = st.done
            /\ attack_enabled' = st.enabled
            /\ formation' = st.formation
            /\ attackers' = st.attackers
            /\ tick_log' = [trace |-> st.trace, enabled_at |-> st.enabled_at,
                            attack_unsettled |-> st.attack_unsettled]
    IN  /\ spawned > 0 => ~appearance_done
        /\ finish => ~appearance_done
        /\ alive_enemy_count + spawned <= MaxAlive
        /\ died <= alive_enemy_count + spawned
        /\ commit(stage_manager_update(TickState, spawned, finish, pick, died))
        /\ stage_op' = "update"
        /\ stage_prev' = <<alive_enemy_count, stage_state>>
        /\ UNCHANGED <<enemyVars, move_ticks, move_mark, old_manager, pad, sideVars>>

\* StageManager::start_next_stage
TickStartNextStage ==
    /\ stage_state' = "APPEARANCE"
    /\ alive_enemy_count' = 0
    /\ appearance_done' = FALSE
    /\ attack_enabled' = FALSE
    /\ formation' = FormationNew
    /\ attackers' = 0
    /\ tick_log' = NoTickLog
    /\ UNCHANGED <<old_manager, pad>>
    /\ stage_op' = "start_next_stage"
    /\ stage_prev' = <<0, "APPEARANCE">>
    /\ UNCHANGED <<enemyVars, move_ticks, move_mark, old_manager, pad, sideVars>>

NextTick ==
    \/ \E spawned \in 0..2, finish \in BOOLEAN, pick \in BOOLEAN, died \in 0..MaxAlive :
          StageTick(spawned, finish, pick, died)
    \/ TickStartNextStage

SpecTick == InitStage /\ [][NextTick]_vars

(***************************************************************************)
(* The EnemyManager that owns the enemy and shot slot arrays.              *)
(***************************************************************************)
\* find_slot with the last slot as the answer when none is free.
find_slot_or_last(slots) ==
    IF \E i \in DOMAIN slots : slots[i] = None
    THEN <<CHOOSE i \in DOMAIN slots :
             slots[i] = None /\ \A j \in DOMAIN slots : slots[j] = None => i <= j>>
    ELSE <<Len(slots)>>

\* EnemyManager::find_slot, and the same search in spawn_shot: the first
\* empty slot, if there is one.
find_slot(slots) ==
    IF \E i \in DOMAIN slots : slots[i] = None
    THEN <<CHOOSE i \in DOMAIN slots :
             slots[i] = None /\ \A j \in DOMAIN slots : slots[j] = None => i <= j>>
    ELSE None

SlotCount(slots) == Cardinality({i \in DOMAIN slots : slots[i] # None})

\* EnemyManager::spawn
OldSpawn(enemy) ==
    LET put(slot) ==
            [old_manager EXCEPT !.enemies = IF slot = None THEN @
                                            ELSE [@ EXCEPT ![slot[1]] = enemy],
                                !.spawned = slot # None,
                                !.op = "spawn"]
    IN  /\ old_manager' = put(find_slot(old_manager.enemies))
        /\ UNCHANGED <<stageVars, enemyVars, move_ticks, move_mark, formation,
                       attackers, tick_log, pad, sideVars>>

\* EnemyManager::spawn_shot
OldSpawnShot(shot) ==
    LET put(slot) ==
            [old_manager EXCEPT !.shots = IF slot = None THEN @
                                          ELSE [@ EXCEPT ![slot[1]] = shot],
                                !.op = "spawn_shot"]
    IN  /\ old_manager' = put(find_slot(old_manager.shots))
        /\ UNCHANGED <<stageVars, enemyVars, move_ticks, move_mark, formation,
                       attackers, tick_log, pad, sideVars>>

\* EnemyManager::check_collision: the enemy that is hit and destroyed leaves
\* its slot.
OldCheckCollision(i) ==
    /\ old_manager.enemies[i] # None
    /\ old_manager' = [old_manager EXCEPT !.enemies[i] = None, !.op = "check_collision"]
    /\ UNCHANGED <<stageVars, enemyVars, move_ticks, move_mark, formation,
                   attackers, tick_log, pad, sideVars>>

\* EnemyManager::update_shots and check_shot_collision: a shot that leaves
\* the screen or hits leaves its slot.
OldUpdateShots(i) ==
    /\ old_manager.shots[i] # None
    /\ old_manager' = [old_manager EXCEPT !.shots[i] = None, !.op = "update_shots"]
    /\ UNCHANGED <<stageVars, enemyVars, move_ticks, move_mark, formation,
                   attackers, tick_log, pad, sideVars>>

\* The manager after all but FreeAtStart slots of each array have been
\* filled by spawns.
InitSlots ==
    /\ InitStageBase
    /\ move_ticks = -1
    /\ move_mark = NoMark
    /\ formation = FormationNew
    /\ attackers = 0
    /\ tick_log = NoTickLog
    /\ pad = PadDefault
    /\ InitSide
    /\ old_manager =
          [OldManagerNew EXCEPT
             !.enemies = [i \in 1..MAX_ENEMY_COUNT |->
                            IF i <= MAX_ENEMY_COUNT - FreeAtStart THEN <<"Bee">> ELSE <<>>],
             !.shots = [i \in 1..MAX_SHOT_COUNT |->
                            IF i <= MAX_SHOT_COUNT - FreeAtStart THEN <<"left">> ELSE <<>>],
             !.op = "spawn", !.spawned = TRUE]

NextSlots ==
    \/ \E enemy \in {<<"Bee">>, <<"Butterfly">>} : OldSpawn(enemy)
    \/ \E shot \in {<<"left">>, <<"right">>} : OldSpawnShot(shot)
    \/ \E i \in {1, MAX_ENEMY_COUNT} : OldCheckCollision(i)
    \/ \E i \in {1, MAX_SHOT_COUNT} : OldUpdateShots(i)

SpecSlots == InitSlots /\ [][NextSlots]_vars

(***************************************************************************)
(* Pad: the keys and the joystick give the pressed buttons, update derives *)
(* the buttons newly pressed since the update before.                      *)
(***************************************************************************)
\* get_key_bit
get_key_bit(key) ==
    CASE key = "Left" -> {"L"}
      [] key = "Right" -> {"R"}
      [] key = "Up" -> {"U"}
      [] key = "Down" -> {"D"}
      [] key = "Space" -> {"A"}
      [] OTHER -> {}

\* Pad::update that does not remember what was pressed.
pad_update_forgetful(p) ==
    LET pressed == p.key \cup p.joy
    IN  [p EXCEPT !.pad = pressed, !.trg = pressed \ p.last_pad, !.op = "update"]

\* Pad::update
pad_update(p) ==
    LET pressed == p.key \cup p.joy
    IN  [p EXCEPT !.pad = pressed, !.trg = pressed \ p.last_pad,
                  !.last_pad = pressed, !.op = "update"]

\* Pad::is_pressed and Pad::is_trigger
is_pressed(p, btn) == btn \subseteq p.pad
is_trigger(p, btn) == btn \subseteq p.trg

\* Pad::on_key
pad_on_key(p, keycode, down) ==
    [p EXCEPT !.key = IF down THEN @ \cup get_key_bit(keycode)
                      ELSE @ \ get_key_bit(keycode),
              !.op = "on_key"]

\* Pad::on_joystick_axis
pad_on_joystick_axis(p, axis_index, dir) ==
    LET lr == IF dir < 0 THEN {"L"} ELSE IF dir > 0 THEN {"R"} ELSE {}
        ud == IF dir < 0 THEN {"U"} ELSE IF dir > 0 THEN {"D"} ELSE {}
    IN  [p EXCEPT !.joy = CASE axis_index = 0 -> (@ \ {"L", "R"}) \cup lr
                            [] axis_index = 1 -> (@ \ {"U", "D"}) \cup ud
                            [] OTHER -> @,
                  !.op = "on_joystick_axis"]

\* Pad::on_joystick_button
pad_on_joystick_button(p, down) ==
    [p EXCEPT !.joy = IF down THEN @ \cup {"A"} ELSE @ \ {"A"},
              !.op = "on_joystick_button"]

PadOthersUnchanged ==
    UNCHANGED <<stageVars, enemyVars, move_ticks, move_mark, formation, attackers,
                tick_log, old_manager, sideVars>>

PadUpdate ==
    /\ pad' = pad_update(pad)
    /\ PadOthersUnchanged

PadOnKey(keycode, down) ==
    /\ pad' = pad_on_key(pad, keycode, down)
    /\ PadOthersUnchanged

PadOnJoystickAxis(axis_index, dir) ==
    /\ pad' = pad_on_joystick_axis(pad, axis_index, dir)
    /\ PadOthersUnchanged

PadOnJoystickButton(down) ==
    /\ pad' = pad_on_joystick_button(pad, down)
    /\ PadOthersUnchanged

NextPad ==
    \/ PadUpdate
    \/ \E keycode \in {"Left", "Space", "Escape"}, down \in BOOLEAN : PadOnKey(keycode, down)
    \/ \E axis_index \in 0..2, dir \in {-1, 0, 1} : PadOnJoystickAxis(axis_index, dir)
    \/ \E down \in BOOLEAN : PadOnJoystickButton(down)

SpecPad == InitStage /\ [][NextPad]_vars

(***************************************************************************)
StageRank(s) == CASE s = "APPEARANCE" -> 0 [] s = "NORMAL" -> 1
                  [] s = "RUSH" -> 2 [] s = "CLEARED" -> 3

\* The update that has just run found the stage in state s and left count n.
StageStep(s, n) ==
    stage_op = "update" /\ stage_prev[2] = s /\ alive_enemy_count = n

\* C1: once the stage has left Appearance, every update leaves the stage
\* state Cleared when the alive count is 0, Rush when it is 1..5 and unchanged
\* when it is above 5; so the counts 12, 6, 5, 0 give Normal, Normal, Rush,
\* Cleared, each change at its threshold.
C1_StageThresholds ==
    /\ (stage_op = "update" /\ stage_prev[2] # "APPEARANCE") =>
           stage_state = (IF alive_enemy_count = 0 THEN "CLEARED"
                          ELSE IF alive_enemy_count \in 1..5 THEN "RUSH"
                          ELSE stage_prev[2])
    /\ StageStep("NORMAL", 12) => stage_state = "NORMAL"
    /\ StageStep("NORMAL", 6) => stage_state = "NORMAL"
    /\ StageStep("NORMAL", 5) => stage_state = "RUSH"
    /\ StageStep("RUSH", 0) => stage_state = "CLEARED"

C1_Witness ==
    /\ StageStep("NORMAL", 5)
    /\ stage_prev[1] = 6
    /\ stage_state = "RUSH"

\* C2: between two start_next_stage calls the stage state only moves forward
\* along Appearance, Normal, Rush, Cleared, whatever the alive counts do.
C2_ForwardOnly ==
    [][stage_op' # "start_next_stage" =>
         StageRank(stage_state') >= StageRank(stage_state)]_vars

(***************************************************************************)
(* Enemy claims.                                                           *)
(***************************************************************************)
present(en, fi) == en[fi].enemy_type # "none"

\* The step is one frame of the stage.
IsFrameStep == stage_op' = "update" /\ formation_phase' # formation_phase

\* The troops of the enemy at fi that exist and are not captured fighters.
LiveEscorts(en, fi) ==
    {t \in TroopSet(en[fi]) : /\ present(en, t)
                              /\ ~en[t].disappeared
                              /\ en[t].enemy_type # "CapturedFighter"}

\* C3: an enemy that is in Formation state when a tick starts, or that
\* arrives at its slot in the tick, and is in Formation state when the tick
\* ends is then exactly at the formation position of its slot.
C3_FormationPinned ==
    [][IsFrameStep =>
         \A fi \in Slots :
            (/\ present(enemies, fi)
             /\ enemies[fi].state \in {"Formation", "MoveToFormation"}
             /\ present(enemies', fi)
             /\ enemies'[fi].state = "Formation")
            => enemies'[fi].pos = formation_pos(formation_phase', fi)]_vars

\* A Bee that has attacked and is back in its slot.
C3_Witness ==
    /\ stage_op = "update"
    /\ present(enemies, BeeFi)
    /\ enemies[BeeFi].state = "Formation"
    /\ enemies[BeeFi].attack_frame_count > 0
    /\ enemies[BeeFi].pos = formation_pos(formation_phase, BeeFi)

\* C4: an Owl with life 0 that has a live troop that is not a captured
\* fighter is not marked disappeared, and the hit that took its last life
\* while it had such a troop reported killed = FALSE and left it present.
C4_GhostStays ==
    /\ \A fi \in Slots :
          (/\ present(enemies, fi)
           /\ enemies[fi].enemy_type = "Owl"
           /\ enemies[fi].life = 0
           /\ LiveEscorts(enemies, fi) # {})
          => ~enemies[fi].disappeared
    /\ (/\ damage_result.fi = OwlFi
        /\ damage_result.lethal
        /\ damage_result.live # {})
       => /\ ~damage_result.killed
          /\ present(enemies, OwlFi)
          /\ enemies[OwlFi].life = 0
          /\ ~enemies[OwlFi].disappeared

\* A ghost Owl that has led its escorts through a tick.
C4_Witness ==
    /\ stage_op = "update"
    /\ present(enemies, OwlFi)
    /\ enemies[OwlFi].life = 0
    /\ LiveEscorts(enemies, OwlFi) # {}
    /\ ~enemies[OwlFi].disappeared

\* The leader at L and its troop at t before and after the step.
TroopFollows(L, t) ==
    LET d == VSub(enemies'[L].pos, enemies[L].pos)
        dt == VSub(enemies'[t].pos, enemies[t].pos)
    IN  /\ (d # ZERO_VEC \/ enemies[L].update_fn # "update_attack_capture_push_up")
              => dt = d
        /\ enemies'[t].angle = IF enemies'[L].copy_angle_to_troops
                               THEN enemies'[L].angle ELSE enemies[t].angle

Pow2(k) == IF k = 0 THEN 1 ELSE IF k = 1 THEN 2 ELSE IF k = 2 THEN 4 ELSE 8

\* C6: an Owl that loses its last life outside Formation state while it has k
\* live escorts yields 400 * 2^k points.
C6_OwlPoints ==
    (/\ damage_result.fi = OwlFi
     /\ damage_result.lethal
     /\ damage_result.state # "Formation")
    => damage_result.point = 400 * Pow2(Cardinality(damage_result.live))

\* C10: in the tick in which a Bee runs the last command of its attack
\* table, it ends in Attack state on the rush-continuation table when the
\* stage is in rush, and in MoveToFormation state otherwise.
C10_BeeRushContinuation ==
    [][IsFrameStep =>
         \A fi \in Slots :
            (/\ present(enemies, fi)
             /\ enemies[fi].enemy_type = "Bee"
             /\ enemies[fi].update_fn = "update_bee_attack"
             /\ enemies[fi].traj.table = "BEE_ATTACK_TABLE"
             /\ enemies[fi].traj.step = TrajLen - 1
             /\ present(enemies', fi))
            => IF stage_state = "RUSH"
               THEN /\ enemies'[fi].state = "Attack"
                    /\ enemies'[fi].traj.table = "BEE_ATTACK_RUSH_CONT_TABLE"
                    /\ enemies'[fi].traj.step = 0
               ELSE /\ enemies'[fi].state = "MoveToFormation"
                    /\ enemies'[fi].traj = NoTraj]_vars

\* A Bee on the rush-continuation table, and a Bee going back to its slot.
C10_Witness ==
    /\ stage_op = "update"
    /\ present(enemies, BeeFi)
    /\ enemies[BeeFi].state = "Attack"
    /\ enemies[BeeFi].traj.table = "BEE_ATTACK_RUSH_CONT_TABLE"
    /\ enemies[BeeFi].traj.step = 0

\* The player as the Owl sees it in the coming tick: the events of the tick
\* before have been consumed.
PlayerAfterEvents ==
    handle_events([en |-> enemies, player |-> player_state], event_queue).player

\* The Owl's beam phase finds a beam that is not closed and can capture a
\* player that can be captured.
CaptureCond ==
    /\ present(enemies, OwlFi)
    /\ enemies[OwlFi].update_fn = "update_attack_capture_beam"
    /\ enemies[OwlFi].tractor_beam.state # "none"
    /\ ~tractor_beam_closed(enemies[OwlFi].tractor_beam)
    /\ PlayerAfterEvents = "playing"
    /\ tractor_beam_can_capture(enemies[OwlFi].tractor_beam, player_pos)

\* C7: CapturePlayer is emitted in the first tick of the beam phase in which
\* the beam is not closed, the player can be captured and the beam can
\* capture at the player's position, once in that tick and for the first time
\* in the attack; it is emitted in no other tick, so never twice in an attack.
C7_CapturePlayerOnce ==
    [][IsFrameStep =>
         /\ CaptureCond => /\ CountEvents(event_queue', "CapturePlayer") = 1
                           /\ capture_log'.CapturePlayer = 1
                           /\ enemies'[OwlFi].update_fn = "update_attack_capture_start"
         /\ ~CaptureCond => /\ CountEvents(event_queue', "CapturePlayer") = 0
                            /\ capture_log'.CapturePlayer <= 1]_vars

\* The capture has started while the player stays under the open beam.
C7_Witness ==
    /\ stage_op = "update"
    /\ capture_log.CapturePlayer = 1
    /\ present(enemies, OwlFi)
    /\ enemies[OwlFi].update_fn = "update_attack_capture_start"
    /\ CountEvents(event_queue, "CapturePlayer") = 0
    /\ player_state = "capturing"
    /\ player_pos = PLAYER_NEAR

EventIndices(evs, name) == {i \in 1..Len(evs) : evs[i][1] = name}

\* The Owl's close-beam phase finds the beam closed.
BeamClosedAfterCapture ==
    /\ present(enemies, OwlFi)
    /\ enemies[OwlFi].update_fn = "update_attack_capture_close_beam"
    /\ enemies[OwlFi].tractor_beam.state # "none"
    /\ tractor_beam_closed(enemies[OwlFi].tractor_beam)

\* C8: in the tick in which the Owl at (x, y) finds its beam closed after the
\* capture-completed signal, and in no other tick, it queues one
\* SpawnCapturedFighter for slot (x, y-1) and after it one
\* CapturePlayerCompleted, each for the first time in the attack, and has
\* (x, y-1) among its troops; the player has been reported captured by then.
C8_CaptureCompleted ==
    [][IsFrameStep =>
         LET spawns == EventIndices(event_queue', "SpawnCapturedFighter")
             dones == EventIndices(event_queue', "CapturePlayerCompleted")
         IN  /\ BeamClosedAfterCapture <=> spawns # {}
             /\ dones # {} <=> spawns # {}
             /\ spawns # {} =>
                   /\ Cardinality(spawns) = 1
                   /\ Cardinality(dones) = 1
                   /\ \A i \in spawns, j \in dones :
                         /\ i < j
                         /\ event_queue'[i][2] = <<OwlFi[1], OwlFi[2] - 1>>
                         /\ event_queue'[i][3] = VAdd(enemies'[OwlFi].pos, Vec(0, 16 * ONE))
                   /\ <<OwlFi[1], OwlFi[2] - 1>> \in TroopSet(enemies'[OwlFi])
                   /\ capture_log'.SpawnCapturedFighter = 1
                   /\ capture_log'.CapturePlayerCompleted = 1
                   /\ player_state' = "captured"]_vars

\* The spawn request and the completion are in the queue of the tick.
C8_Witness ==
    /\ stage_op = "update"
    /\ EventIndices(event_queue, "SpawnCapturedFighter") # {}
    /\ EventIndices(event_queue, "CapturePlayerCompleted") # {}
    /\ CapturedFi \in TroopSet(enemies[OwlFi])

\* C9: the Owl does not move in the tick that reports the capture nor in the
\* 119 ticks after it and starts to fly back when its count reaches 120; from
\* flying back it goes to pushing up; while it pushes up, the captured
\* fighter rises by one unit per tick, at most up to 16 units above the Owl;
\* CaptureSequenceEnded is queued once, in the tick the fighter gets there,
\* and then both are in Formation state and the Owl has no troops.
C9_CaptureSequenceEnds ==
    [][(IsFrameStep /\ present(enemies, OwlFi) /\ present(enemies', OwlFi)) =>
         LET owl == enemies[OwlFi]
             owl2 == enemies'[OwlFi]
             ended == EventIndices(event_queue', "CaptureSequenceEnded")
             topy == owl.pos[2] - 16 * ONE
         IN  /\ owl2.update_fn = "update_attack_capture_capture_done_wait" =>
                   /\ owl2.pos = owl.pos
                   /\ owl2.count < 120
                   /\ owl.update_fn \in {"update_attack_capture_close_beam",
                                         "update_attack_capture_capture_done_wait"}
             /\ (/\ owl.update_fn = "update_attack_capture_capture_done_wait"
                 /\ owl2.update_fn # "update_attack_capture_capture_done_wait") =>
                   /\ owl.count = 119
                   /\ owl2.update_fn = "update_attack_capture_back"
             /\ owl.update_fn = "update_attack_capture_back" =>
                   owl2.update_fn \in {"update_attack_capture_back",
                                       "update_attack_capture_push_up"}
             /\ (/\ owl.update_fn = "update_attack_capture_push_up"
                 /\ present(enemies, CapturedFi) /\ present(enemies', CapturedFi)) =>
                   /\ owl2.pos = owl.pos
                   /\ enemies'[CapturedFi].pos[1] = enemies[CapturedFi].pos[1]
                   /\ enemies'[CapturedFi].pos[2] =
                         (IF enemies[CapturedFi].pos[2] - ONE <= topy THEN topy
                          ELSE enemies[CapturedFi].pos[2] - ONE)
                   /\ ended # {} <=> enemies'[CapturedFi].pos[2] = topy
             /\ ended # {} =>
                   /\ owl.update_fn = "update_attack_capture_push_up"
                   /\ Cardinality(ended) = 1
                   /\ capture_log'.CaptureSequenceEnded = 1
                   /\ owl2.state = "Formation"
                   /\ TroopSet(owl2) = {}
                   /\ present(enemies', CapturedFi)
                   /\ enemies'[CapturedFi].state = "Formation"
                   /\ enemies'[CapturedFi].pos[2] = owl2.pos[2] - 16 * ONE]_vars

\* The sequence has ended with the fighter 16 units above the Owl.
C9_Witness ==
    /\ stage_op = "update"
    /\ EventIndices(event_queue, "CaptureSequenceEnded") # {}
    /\ enemies[OwlFi].state = "Formation"
    /\ enemies[CapturedFi].state = "Formation"
    /\ enemies[CapturedFi].pos[2] = enemies[OwlFi].pos[2] - 16 * ONE

(***************************************************************************)
(* C11: the move-to-formation loop ends.  An update depends only on the    *)
(* position, the speed and the heading modulo a full turn, so the loop     *)
(* ends only if the enemy, while still in MoveToFormation, is never again  *)
(* in the configuration it started in.                                     *)
(***************************************************************************)
C11_MoveToFormationTerminates ==
    (move_ticks > 0 /\ enemies[MoveFi].state = "MoveToFormation")
        => MoveConfig(enemies[MoveFi]) # move_mark

(***************************************************************************)
(* C12: no two present enemies in Formation, MoveToFormation, Assault or   *)
(* Attack state have the same formation index; enemies in Troop state are  *)
(* not compared.                                                           *)
(***************************************************************************)
IndexedStates == {"Formation", "MoveToFormation", "Assault", "Attack"}

Indexed(en) == {fi \in Slots : present(en, fi) /\ en[fi].state \in IndexedStates}

PassOrder == <<"appearance", "formation", "attack", "enemies", "stage_state">>

C13_PassOrder ==
    stage_op = "update" =>
        /\ tick_log.trace = PassOrder
        /\ stage_state # "APPEARANCE" =>
              stage_state = check_stage_state(stage_state, alive_enemy_count)

\* An update in which the appearance finished, an attack was scheduled and
\* the count the enemy update left put the stage in RUSH.
C13_Witness ==
    /\ stage_op = "update"
    /\ tick_log.trace = PassOrder
    /\ stage_prev[2] = "APPEARANCE"
    /\ stage_state = "RUSH"
    /\ attackers > 0

(***************************************************************************)
(* C14: set_state asked for Attack ends the process, and no operation on   *)
(* an enemy asks it: an enemy is in Attack only with an update function    *)
(* that set_state_with_fn installed.                                       *)
(***************************************************************************)
C14_AttackNeverBySetState ==
    /\ set_state_fn("Attack") = "exit"
    /\ \A fi \in Slots : present(enemies, fi) =>
          /\ enemies[fi].update_fn # "exit"
          /\ enemies[fi].state = "Attack" => enemies[fi].update_fn \notin
                {set_state_fn(st) : st \in {"None", "Troop", "Appearance",
                                           "MoveToFormation", "Assault", "Formation"}}

\* A Bee that set_attack sent out and that has been updated in Attack.
C14_Witness ==
    /\ present(enemies, BeeFi) /\ enemies[BeeFi].state = "Attack"
    /\ enemies[BeeFi].update_fn = "update_bee_attack"
    /\ enemies[BeeFi].attack_frame_count > 0

(***************************************************************************)
(* C15: a troop slot that names an index without an enemy is skipped.  The *)
(* troop propagation, the shots of an attack, the live-troop check and the *)
(* release of the troops give what they give when the slot is empty, leave *)
(* the index without an enemy and leave the slot as it is (the release     *)
(* empties every slot).                                                    *)
(***************************************************************************)
CurrentWorld == [en |-> enemies, ev |-> <<>>, shot_paused |-> shot_paused]

Dangling(w, fi) == {t \in TroopSet(w.en[fi]) : ~exists_at(w, t)}

\* The world in which the leader's slots without an enemy are empty.
Cleared(w, fi) ==
    setme(w, fi, [w.en[fi] EXCEPT !.troops = [i \in 1..MAX_TROOPS |->
        IF @[i] # None /\ ~exists_at(w, @[i]) THEN None ELSE @[i]]])

\* The leader on a frame of its attack on which it shoots.
Shooting(w, fi) == setme(w, fi, [w.en[fi] EXCEPT !.attack_frame_count = 15])

SkipsDangling(w, fi) ==
    LET wc == Cleared(w, fi)
        add == Vec(ONE, -ONE)
        moved == update_troops(w, fi, add, <<ANGLE>>)
        movedc == update_troops(wc, fi, add, <<ANGLE>>)
        acc == [stage_no |-> 0]
    IN  /\ \A t \in Slots \ {fi} : moved.en[t] = movedc.en[t]
        /\ \A t \in Dangling(w, fi) : moved.en[t] = w.en[t]
        /\ moved.en[fi] = w.en[fi]
        /\ update_attack(Shooting(w, fi), fi, acc).ev
              = update_attack(Shooting(wc, fi), fi, acc).ev
        /\ live_troops(w, w.en[fi]) = live_troops(wc, wc.en[fi])
        /\ release_troops(w, fi) = release_troops(wc, fi)

C15_MissingTroopSkipped ==
    \A fi \in Slots :
        (present(enemies, fi) /\ Dangling(CurrentWorld, fi) # {})
            => SkipsDangling(CurrentWorld, fi)

\* An Owl that has been updated on its attack with a troop slot whose enemy
\* is gone.
C15_Witness ==
    /\ present(enemies, OwlFi)
    /\ enemies[OwlFi].state = "Attack"
    /\ enemies[OwlFi].attack_frame_count > 0
    /\ Dangling(CurrentWorld, OwlFi) # {}

(***************************************************************************)
(* C16: a spawn that finds all 64 enemy slots taken, and a shot spawn that *)
(* finds all 16 shot slots taken, is dropped and leaves the arrays as they *)
(* were; the arrays never hold more than 64 enemies and 16 shots.          *)
(***************************************************************************)
SlotsFull(slots) == \A i \in DOMAIN slots : slots[i] # None

C16_SpawnDroppedWhenFull ==
    [][/\ (old_manager'.op = "spawn" /\ SlotsFull(old_manager.enemies)) =>
             /\ old_manager'.enemies = old_manager.enemies
             /\ ~old_manager'.spawned
       /\ (old_manager'.op = "spawn_shot" /\ SlotsFull(old_manager.shots)) =>
             old_manager'.shots = old_manager.shots
       /\ DOMAIN old_manager'.enemies = 1..MAX_ENEMY_COUNT
       /\ DOMAIN old_manager'.shots = 1..MAX_SHOT_COUNT
       /\ SlotCount(old_manager'.enemies) <= MAX_ENEMY_COUNT
       /\ SlotCount(old_manager'.shots) <= MAX_SHOT_COUNT]_vars

\* A spawn has just been dropped with both arrays full.
C16_Witness ==
    /\ old_manager.op = "spawn"
    /\ ~old_manager.spawned
    /\ SlotsFull(old_manager.enemies)
    /\ SlotsFull(old_manager.shots)

(***************************************************************************)
(* C17: after every Pad::update a button is a trigger exactly when it is   *)
(* pressed now, by key or joystick, and was not pressed at the update      *)
(* before; a button that is held stays pressed and is no trigger again.    *)
(***************************************************************************)
PadButtons == {"L", "R", "U", "D", "A"}

C17_TriggerOnFirstPress ==
    [][pad'.op = "update" =>
          \A b \in PadButtons :
              /\ is_pressed(pad', {b}) <=> (b \in pad.key \/ b \in pad.joy)
              /\ is_trigger(pad', {b}) <=> (is_pressed(pad', {b}) /\ ~is_pressed(pad, {b}))]_vars

\* After an update the fire button is held from the update before and the
\* left button is newly pressed.
C17_Witness ==
    /\ pad.op = "update"
    /\ is_pressed(pad, {"A"}) /\ ~is_trigger(pad, {"A"})
    /\ is_pressed(pad, {"L"}) /\ is_trigger(pad, {"L"})

(***************************************************************************)
(* C18: the attack manager is enabled only after the formation has         *)
(* settled: set_enable(true) is never applied while is_settle() is false,  *)
(* and no attack is scheduled while the formation has not settled.         *)
(***************************************************************************)
C18_EnabledOnlyWhenSettled ==
    /\ tick_log.enabled_at # <<>> => tick_log.enabled_at = <<TRUE>>
    /\ ~tick_log.attack_unsettled

(***************************************************************************)
(* C19: every change of an enemy's state follows the machine: Appearance   *)
(* is left only to MoveToFormation or Assault, Formation is entered only   *)
(* from MoveToFormation or Troop, Attack is entered only from Formation or *)
(* from Attack, Attack is left only to MoveToFormation or by disappearing, *)
(* Troop is entered only from Formation.                                   *)
(***************************************************************************)
StatedMachine(from, to) ==
    \/ from = to
    \/ /\ from = "Appearance" => to \in {"MoveToFormation", "Assault"}
       /\ to = "Formation" => from \in {"MoveToFormation", "Troop"}
       /\ to = "Attack" => from = "Formation"
       /\ from = "Attack" => to = "MoveToFormation"
       /\ to = "Troop" => from = "Formation"

EnemyMachine(me, to) ==
    \/ StatedMachine(me.state, to)
    \/ /\ me.state = "Attack" /\ to = "Formation"
       /\ me.enemy_type = "Owl"
       /\ me.update_fn = "update_attack_capture_push_up"

ReleaseEvents == {"EndCaptureAttack", "EscapeCapturing", "RecapturePlayer"}

\* The release events a step has added to the queue.
Released(before, after) ==
    SelectSeq(SubSeq(after, Len(before) + 1, Len(after)),
              LAMBDA e : e[1] \in ReleaseEvents)

ExpectedRelease(me) ==
    LET above == <<me.formation_index[1], me.formation_index[2] - 1>>
    IN  CASE me.capturing_state = "Attacking" -> <<<<"EndCaptureAttack", me.formation_index>>>>
          [] me.capturing_state = "BeamTracting" -> <<<<"EscapeCapturing", me.formation_index>>>>
          [] OTHER -> IF above \in TroopSet(me)
                      THEN <<<<"RecapturePlayer", above>>>> ELSE <<>>

OwlDamaged(fi, lethal) ==
    LET me == enemies[fi]
        rel == Released(event_queue, event_queue')
    IN  IF lethal
        THEN /\ rel = ExpectedRelease(me)
             /\ Len(rel) <= 1
             /\ present(enemies', fi) => enemies'[fi].capturing_state = "None"
        ELSE /\ rel = <<>>
             /\ present(enemies', fi)
             /\ enemies'[fi].capturing_state = me.capturing_state

C20_OwlReleaseOnLethalDamage ==
    [][\A fi \in Slots :
          (/\ damage_result = NoDamage
           /\ damage_result'.fi = fi
           /\ enemies[fi].enemy_type = "Owl")
              => OwlDamaged(fi, damage_result'.lethal)]_vars

\* An Owl has been hit lethally while its beam held the player and the
\* capture has been released with EscapeCapturing.
C20_Witness ==
    /\ damage_result # NoDamage
    /\ damage_result.fi = OwlFi
    /\ damage_result.lethal
    /\ damage_result.capturing_state = "BeamTracting"
    /\ \E i \in 1..Len(event_queue) : event_queue[i][1] = "EscapeCapturing"

(***************************************************************************)
(* C21: when the trajectory of a generic attack is exhausted, a captured   *)
(* fighter is marked disappeared, in rush mode or not; a Butterfly or an   *)
(* Owl is in MoveToFormation when the stage is not in rush mode, and in    *)
(* rush mode it is in Attack again in the same tick, on the rush table of  *)
(* its type, with its attack counters reset.                               *)
(***************************************************************************)
\* The enemy runs a generic attack whose table ends with this update.
AttackTrajEnds(me) ==
    /\ me.enemy_type \in {"Butterfly", "Owl", "CapturedFighter"}
    /\ ~me.disappeared
    /\ me.state = "Attack"
    /\ me.update_fn = "update_attack_traj"
    /\ me.traj.table # "none"
    /\ ~TrajCont(TrajUpdate(me.traj))

AfterAttackTraj(me, after, is_rush) ==
    IF me.enemy_type = "CapturedFighter" THEN after.disappeared
    ELSE IF is_rush
    THEN /\ after.state = "Attack"
         /\ after.update_fn = "update_attack_traj"
         /\ after.traj.table = rush_traj_table(me.enemy_type)
         /\ after.traj.step = 0
         /\ after.count = 0
         /\ after.attack_frame_count = 0
    ELSE /\ after.state = "MoveToFormation"
         /\ after.traj = NoTraj

C22_NoTrajectoryOutsideRun ==
    \A fi \in Slots : present(enemies, fi) =>
        /\ enemies[fi].state \in {"MoveToFormation", "Formation", "Assault", "Troop"}
              => enemies[fi].traj = NoTraj
        /\ enemies[fi].traj # NoTraj
              => /\ enemies[fi].state \in {"Appearance", "Attack"}
                 /\ TrajCont(enemies[fi].traj)

\* The Bee has run its appearance trajectory to the end and is on its way to
\* its slot without it.
C22_Witness ==
    /\ present(enemies, BeeFi)
    /\ enemies[BeeFi].state = "MoveToFormation"
    /\ enemies[BeeFi].traj = NoTraj
    /\ enemies[BeeFi].pos # BEE_START



(***************************************************************************)
(* GameInfo (galangua-ecs resources.rs): the ships left, the state of the  *)
(* game and of the capture.  left_ship and count are u32; a left_ship      *)
(* below 0 stands for the value the subtraction wraps to (-1 for 2^32 - 1).*)
(* panicked names the check that has aborted the program, if any.  The     *)
(* other fields record calls: op the last one, entered_by the one that     *)
(* last wrote game_state, waited the updates counted since then,           *)
(* saw_no_attacker what the last update was told, underflow whether        *)
(* next_player has been called without a ship left.                        *)
(***************************************************************************)
\* DEFAULT_LEFT_SHIP is defined outside these sources: the ships of a new game.
DEFAULT_LEFT_SHIP == 3
WAIT1 == 60
MaxCapturedTicks == 2
MaxWrapped == 1

GameState ==
    {"Playing", "PlayerDead", "WaitReady", "WaitReady2", "Capturing", "Captured",
     "Recapturing", "GameOver"}

\* GameInfo::new
GameInfoNew ==
    [left_ship |-> DEFAULT_LEFT_SHIP, game_state |-> "Playing", count |-> 0,
     capture_state |-> "NoCapture",
     attack_paused |-> FALSE, appearance_paused |-> FALSE, shot_enabled |-> TRUE,
     panicked |-> "", op |-> "new", entered_by |-> "new", waited |-> 0,
     saw_no_attacker |-> FALSE, underflow |-> FALSE]

\* The record after the call op: the game state has been written by it or not.
Called(g, after, op, wrote_state) ==
    [after EXCEPT !.op = op,
                  !.entered_by = IF wrote_state THEN op ELSE g.entered_by,
                  !.waited = IF wrote_state THEN 0 ELSE after.waited]

\* GameInfo::next_player: one ship less; the subtraction from 0 aborts the
\* program when overflow is checked and wraps when it is not.
next_player(g, checked) ==
    IF g.left_ship = 0 /\ checked
    THEN [g EXCEPT !.panicked = "next_player", !.underflow = TRUE]
    ELSE LET left == g.left_ship - 1
             g1 == [g EXCEPT !.left_ship = left, !.underflow = (g.left_ship = 0)]
         IN  IF left = 0
             THEN [g1 EXCEPT !.appearance_paused = TRUE, !.attack_paused = TRUE,
                             !.game_state = "GameOver", !.count = 0]
             ELSE [g1 EXCEPT !.shot_enabled = FALSE,
                             !.game_state = "WaitReady2", !.count = 0]

\* GameInfo::update
game_info_update(g, is_no_attacker, checked) ==
    LET g1 == [g EXCEPT !.count = g.count + 1]
        after ==
            CASE g.game_state = "PlayerDead" ->
                    IF g1.count >= 60
                    THEN [g1 EXCEPT !.game_state = "WaitReady", !.count = 0]
                    ELSE g1
              [] g.game_state = "WaitReady" ->
                    IF is_no_attacker
                    THEN IF g1.count >= WAIT1 THEN next_player(g1, checked) ELSE g1
                    ELSE g
              [] g.game_state = "WaitReady2" ->
                    IF g1.count >= 60
                    THEN [g1 EXCEPT !.shot_enabled = TRUE, !.attack_paused = FALSE,
                                    !.game_state = "Playing", !.count = 0]
                    ELSE g1
              [] g.game_state = "Captured" -> g1
              [] OTHER -> g
        counted == [after EXCEPT !.waited = IF after.count # g.count THEN g.waited + 1
                                            ELSE g.waited,
                                 !.saw_no_attacker = is_no_attacker]
    IN  Called(g, counted, "update", after.game_state # g.game_state)

\* GameInfo::can_capture_attack that allows a capture attack in every capture
\* state.
can_capture_attack_any_state(g) == TRUE

\* GameInfo::can_capture_attack
can_capture_attack(g) == g.capture_state = "NoCapture"

\* GameInfo::can_capture
game_info_can_capture(g) == g.game_state = "Playing"

\* GameInfo::end_capture_attack, with its assertion
end_capture_attack(g) ==
    IF g.capture_state = "Captured"
    THEN [g EXCEPT !.panicked = "end_capture_attack", !.op = "end_capture_attack"]
    ELSE Called(g, [g EXCEPT !.capture_state = "NoCapture"], "end_capture_attack", FALSE)

\* GameInfo::start_capturing
start_capturing(g) ==
    Called(g, [g EXCEPT !.capture_state = "Capturing"], "start_capturing", FALSE)

\* GameInfo::capture_player
capture_player(g) ==
    Called(g, [g EXCEPT !.game_state = "Capturing", !.capture_state = "Capturing"],
           "capture_player", TRUE)

\* GameInfo::player_captured
player_captured(g) ==
    Called(g, [g EXCEPT !.capture_state = "Captured", !.game_state = "Captured",
                        !.count = 0],
           "player_captured", TRUE)

\* GameInfo::capture_completed
capture_completed(g) ==
    Called(g, [g EXCEPT !.game_state = "WaitReady", !.count = WAIT1 - 1],
           "capture_completed", TRUE)

\* GameInfo::crash_player, with the assertion of its second branch
crash_player(g, died) ==
    IF died
    THEN IF g.game_state # "Recapturing"
         THEN Called(g, [g EXCEPT !.attack_paused = TRUE, !.game_state = "PlayerDead",
                                  !.count = 0],
                     "crash_player_died", TRUE)
         ELSE Called(g, g, "crash_player_died", FALSE)
    ELSE IF g.capture_state # "Dual"
         THEN [g EXCEPT !.panicked = "crash_player", !.op = "crash_player_dual"]
         ELSE Called(g, [g EXCEPT !.capture_state = "NoCapture"], "crash_player_dual",
                     FALSE)

\* The game runs: no check has aborted the program.
Running == game_info # NoGameInfo /\ game_info.panicked = ""

GameOthersUnchanged ==
    UNCHANGED <<stageVars, enemyVars, coreUtilVars, ecs_owl>>

\* One frame: GameInfo::update, with or without an attack in the air, in a
\* build that checks arithmetic overflow or in one that does not.
GameUpdate(is_no_attacker, checked) ==
    /\ Running
    /\ game_info.game_state = "Captured" => game_info.count < MaxCapturedTicks
    /\ game_info.left_ship > -MaxWrapped
    /\ game_info' = game_info_update(game_info, is_no_attacker, checked)
    /\ GameOthersUnchanged

\* The player's fighter, or one of two, is hit.
CrashPlayer(died) ==
    /\ Running
    /\ game_info' = crash_player(game_info, died)
    /\ GameOthersUnchanged

\* A tractor beam takes hold of the player.
StartCapturing ==
    /\ Running
    /\ game_info' = start_capturing(game_info)
    /\ GameOthersUnchanged

\* The Owl sees its beam capture the player.
CapturePlayer ==
    /\ Running
    /\ game_info' = capture_player(game_info)
    /\ GameOthersUnchanged

\* The player has been pulled into the beam.
PlayerCaptured ==
    /\ Running
    /\ game_info' = player_captured(game_info)
    /\ GameOthersUnchanged

\* The capture sequence has been completed.
CaptureCompleted ==
    /\ Running
    /\ game_info' = capture_completed(game_info)
    /\ GameOthersUnchanged

\* An Owl gives up its capture attack.
EndCaptureAttack ==
    /\ Running
    /\ game_info' = end_capture_attack(game_info)
    /\ GameOthersUnchanged

\* The captured fighter is freed and flies back to the player: the systems
\* of the player write game_state and capture_state directly.
Recapture ==
    /\ Running
    /\ \/ /\ game_info.capture_state = "Captured"
          /\ game_info.game_state = "Playing"
          /\ game_info' = Called(game_info, [game_info EXCEPT !.game_state = "Recapturing"],
                                 "recapture", TRUE)
       \/ /\ game_info.game_state = "Recapturing"
          /\ game_info' = Called(game_info,
                                 [game_info EXCEPT !.game_state = "Playing",
                                                   !.capture_state = "Dual"],
                                 "recaptured", TRUE)
    /\ GameOthersUnchanged

InitGame ==
    /\ InitCommonBase
    /\ InitUtilCore
    /\ ecs_owl = NoEcsOwl
    /\ enemies = [fi \in Slots |-> NoEnemy]
    /\ game_info = GameInfoNew

NextGame ==
    \/ \E is_no_attacker \in BOOLEAN, checked \in BOOLEAN :
          GameUpdate(is_no_attacker, checked)
    \/ \E died \in BOOLEAN : CrashPlayer(died)
    \/ StartCapturing
    \/ CapturePlayer
    \/ PlayerCaptured
    \/ CaptureCompleted
    \/ EndCaptureAttack
    \/ Recapture

SpecGame == InitGame /\ [][NextGame]_vars

(***************************************************************************)
(* The entity-component Owl (galangua-ecs system_enemy.rs), stepped beside *)
(* the dispatch-table Owl on the same formation, player and schedule.      *)
(***************************************************************************)
\* An Owl entity standing in formation, as the dispatch-table Owl starts.
\* capture_player and end_capture_attack count the calls of these GameInfo
\* methods in the attack that runs.
EcsOwlStable(fi) ==
    [state |-> "Formation", phase |-> "none", capturing_state |-> "None",
     pos |-> formation_pos(0, fi), angle |-> 0, speed |-> 0, vangle |-> 0,
     target_pos |-> ZERO_VEC, count |-> 0, is_formation |-> TRUE,
     formation_index |-> fi,
     tractor_beam |-> NoBeam, capturing_player |-> FALSE,
     capture_player |-> 0, end_capture_attack |-> 0]

\* forward
ecs_forward(o) ==
    [o EXCEPT !.pos = VAdd(o.pos, calc_velocity(o.angle + TruncDiv(o.vangle, 2), o.speed)),
              !.angle = o.angle + o.vangle]

\* move_to_formation: the result, TRUE once the Owl has landed on its slot.
ecs_move_to_formation_result(o, target) ==
    LET diff == VSub(target, o.pos)
        sq_distance == square(Shr(diff[1], ONE_BIT \div 2)) + square(Shr(diff[2], ONE_BIT \div 2))
    IN  ~(sq_distance > square(Shr(o.speed, ONE_BIT \div 2)))

\* move_to_formation: what it does to the posture and the speed.
ecs_move_to_formation(o, target) ==
    LET diff == VSub(target, o.pos)
        dlimit == TruncDiv(o.speed * 5, 3)
        d == diff_angle(atan2_lut(-diff[2], diff[1]), o.angle)
    IN  IF ~ecs_move_to_formation_result(o, target)
        THEN [o EXCEPT !.angle = o.angle + clamp(d, -dlimit, dlimit), !.vangle = 0]
        ELSE [o EXCEPT !.pos = target, !.speed = 0,
                       !.angle = normalize_angle(o.angle), !.vangle = 0]

\* owl_start_attack, for a capture attack
ecs_owl_start_attack(o, player) ==
    LET DLIMIT == 4 * ONE
    IN  [o EXCEPT !.capturing_state = "Attacking",
                  !.speed = TruncDiv(3 * ONE, 2),
                  !.angle = 0,
                  !.vangle = IF o.formation_index[1] < 5 THEN -DLIMIT ELSE DLIMIT,
                  !.target_pos = Vec(player[1], (HEIGHT - 16 - 8 - 88) * ONE),
                  !.state = "CaptureAttack", !.phase = "Capture",
                  !.is_formation = FALSE,
                  !.capture_player = 0, !.end_capture_attack = 0]

\* create_tractor_beam
ecs_create_tractor_beam(pos) ==
    [state |-> "Opening", count |-> 0, size_count |-> 0, pos |-> pos]

\* set_owl_capturing_player_completed
set_owl_capturing_player_completed(o) ==
    [o EXCEPT !.state = "CaptureAttack", !.phase = "CaptureDoneWait", !.count = 0]

\* run_capture_attack, by the phase of the capture attack
run_capture_attack(o, target) ==
    CASE o.phase = "Capture" ->
            LET DLIMIT == 4 * ONE
                dpos == VSub(o.target_pos, o.pos)
                ang_limit == FULL_TURN \div 2 - (FULL_TURN * 30) \div 360
                ta0 == atan2_lut(-dpos[2], dpos[1])
                target_angle ==
                    IF ta0 >= 0 THEN (IF ta0 > ang_limit THEN ta0 ELSE ang_limit)
                    ELSE (IF ta0 < -ang_limit THEN ta0 ELSE -ang_limit)
                d0 == diff_angle(target_angle, o.angle)
                d == IF o.vangle > 0 /\ d0 < 0 THEN d0 + FULL_TURN
                     ELSE IF o.vangle < 0 /\ d0 > 0 THEN d0 - FULL_TURN
                     ELSE d0
                o1 == IF d >= -DLIMIT /\ d < DLIMIT
                      THEN [o EXCEPT !.angle = target_angle, !.vangle = 0]
                      ELSE o
                pos2 == Vec(o1.pos[1], o1.target_pos[2])
            IN  IF o1.pos[2] >= o1.target_pos[2]
                THEN [o1 EXCEPT !.pos = pos2, !.speed = 0,
                                !.angle = (ANGLE \div 2) * ONE, !.vangle = 0,
                                !.tractor_beam =
                                    ecs_create_tractor_beam(VAdd(pos2, Vec(0, 8 * ONE))),
                                !.capturing_player = FALSE,
                                !.phase = "CaptureBeam"]
                ELSE o1
      [] o.phase = "CaptureBeam" ->
            IF tractor_beam_closed(o.tractor_beam)
            THEN [o EXCEPT !.tractor_beam = NoBeam,
                           !.speed = TruncDiv(5 * ONE, 2),
                           !.phase = "NoCaptureGoOut"]
            ELSE IF o.tractor_beam.state = "Capturing"
            THEN [o EXCEPT !.capture_player = 1,
                           !.capturing_state = "BeamTracting", !.phase = "Capturing"]
            ELSE o
      [] o.phase = "NoCaptureGoOut" ->
            IF o.pos[2] >= (HEIGHT + 8) * ONE
            THEN LET offset == Vec(target[1] - o.pos[1], (-32 - (HEIGHT + 8)) * ONE)
                 IN  [o EXCEPT !.pos = VAdd(o.pos, offset),
                               !.state = "MoveToFormation", !.phase = "none",
                               !.capturing_state = "Failed",
                               !.end_capture_attack = o.end_capture_attack + 1]
            ELSE o
      [] o.phase = "CaptureDoneWait" ->
            IF o.count + 1 >= 120
            THEN [o EXCEPT !.count = o.count + 1,
                           !.speed = TruncDiv(5 * ONE, 2),
                           !.phase = "CaptureDoneBack"]
            ELSE [o EXCEPT !.count = o.count + 1]
      [] o.phase = "CaptureDoneBack" ->
            IF ecs_move_to_formation_result(o, target)
            THEN [ecs_move_to_formation(o, target)
                     EXCEPT !.speed = 0,
                            !.angle = normalize_angle(ecs_move_to_formation(o, target).angle),
                            !.capturing_state = "None",
                            !.phase = "CaptureDonePushUp"]
            ELSE ecs_move_to_formation(o, target)
      [] o.phase = "CaptureDonePushUp" ->
            LET ang == FULL_TURN \div 128
            IN  [o EXCEPT !.angle = o.angle - clamp(o.angle, -ang, ang)]
      [] OTHER -> o    \* Capturing: handled in the tractor beam

\* do_move_owl, for an Owl that makes capture attacks only
do_move_owl(o, target) ==
    CASE o.state = "Formation" ->
            LET ang == FULL_TURN \div 128
            IN  [o EXCEPT !.pos = target, !.angle = o.angle - clamp(o.angle, -ang, ang)]
      [] o.state = "CaptureAttack" ->
            ecs_forward(run_capture_attack(o, target))
      [] o.state = "MoveToFormation" ->
            LET o1 == ecs_forward(ecs_move_to_formation(o, target))
            IN  IF ecs_move_to_formation_result(o, target)
                THEN [o1 EXCEPT !.capturing_state = "None", !.state = "Formation",
                                !.is_formation = TRUE]
                ELSE o1
      [] OTHER -> o

\* can_tractor_beam_capture_player
can_tractor_beam_capture_player(can_capture, beam_pos, player) ==
    can_capture /\ Abs(player[1] - beam_pos[1]) <= 24 * ONE

\* do_move_tractor_beam that reports a capture whenever the beam has closed.
do_move_tractor_beam_always_reports(o, can_capture, player, pulled_in) ==
    LET tb == o.tractor_beam
        closed == TractorBeamUpdate(tb)
    IN  CASE tb.state = "Full"
               /\ can_tractor_beam_capture_player(can_capture, tb.pos, player) ->
                [o EXCEPT !.tractor_beam = [tb EXCEPT !.state = "Capturing", !.count = 0],
                          !.capturing_player = TRUE]
          [] tb.state = "Closing" ->
                IF closed.state = "Closed"
                THEN set_owl_capturing_player_completed([o EXCEPT !.tractor_beam = closed])
                ELSE [o EXCEPT !.tractor_beam = closed]
          [] tb.state = "Capturing" ->
                IF pulled_in THEN [o EXCEPT !.tractor_beam.state = "Closing"] ELSE o
          [] OTHER -> [o EXCEPT !.tractor_beam = TractorBeamUpdate(tb)]

\* do_move_tractor_beam: the beam of the Owl and what it does to its Owl.
do_move_tractor_beam(o, can_capture, player, pulled_in) ==
    LET tb == o.tractor_beam
        closed == TractorBeamUpdate(tb)
    IN  CASE tb.state = "Full"
               /\ can_tractor_beam_capture_player(can_capture, tb.pos, player) ->
                [o EXCEPT !.tractor_beam = [tb EXCEPT !.state = "Capturing", !.count = 0],
                          !.capturing_player = TRUE]
          [] tb.state = "Closing" ->
                IF closed.state = "Closed" /\ o.capturing_player
                THEN set_owl_capturing_player_completed([o EXCEPT !.tractor_beam = closed])
                ELSE [o EXCEPT !.tractor_beam = closed]
          [] tb.state = "Capturing" ->
                IF pulled_in THEN [o EXCEPT !.tractor_beam.state = "Closing"] ELSE o
          [] OTHER -> [o EXCEPT !.tractor_beam = TractorBeamUpdate(tb)]

\* One tick of the Owl entity: the attack manager starts its capture attack
\* when it stands in formation, then the Owl system and the beam system run;
\* a beam added by the Owl system is moved in the same tick, as the beam of
\* the dispatch-table Owl is.
EcsTick(o, start, target, can_capture, player, pulled_in) ==
    LET started == IF start /\ o.is_formation THEN ecs_owl_start_attack(o, player) ELSE o
    IN  do_move_tractor_beam(do_move_owl(started, target), can_capture, player, pulled_in)

\* The frame of a game that runs both Owls: the same attack schedule, the
\* same formation phase and the same player.
FramePair(att) ==
    LET st == handle_events([en |-> enemies, player |-> player_state], event_queue)
        phase == (formation_phase + 1) % FormationPhases
    IN  /\ FrameCore(att)
        /\ ecs_owl' = EcsTick(ecs_owl, att # None, formation_pos(phase, OwlFi),
                              st.player = "playing", player_pos, st.player = "captured")
        /\ UNCHANGED game_info

InitEquiv ==
    /\ InitCommonBase
    /\ InitUtilCore
    /\ ecs_owl = EcsOwlStable(OwlFi)
    /\ game_info = NoGameInfo
    /\ enemies = [fi \in Slots |->
                    IF fi = OwlFi THEN StableEnemy("Owl", fi) ELSE NoEnemy]

NextEquiv ==
    \/ \E att \in {None, <<OwlFi, TRUE>>} : FramePair(att)
    \/ MovePlayer
    \/ PlayerDeadOrBack
    \/ PlayerCaptureCompleted

SpecEquiv == InitEquiv /\ [][NextEquiv]_vars

(***************************************************************************)
(* The entity-component Owl with GameInfo: the calls that the Owl system   *)
(* and the beam system make on GameInfo in a tick.  The attack manager and *)
(* the systems of the player are not part of these sources: the attack     *)
(* manager is taken to start a capture attack only while it is not paused  *)
(* and can_capture_attack holds, and the player to call player_captured    *)
(* when the beam has pulled it in (on_player_captured,                     *)
(* set_player_captured).  One Owl at a time makes a capture attack.        *)
(***************************************************************************)
\* run_capture_attack: its calls of capture_player and end_capture_attack.
owl_system_calls(g, before, after) ==
    IF before.phase = "CaptureBeam" /\ after.phase = "Capturing"
    THEN capture_player(g)
    ELSE IF before.phase = "NoCaptureGoOut" /\ after.state = "MoveToFormation"
    THEN end_capture_attack(g)
    ELSE g

\* do_move_tractor_beam: its call of start_capturing, and player_captured
\* when the player has been pulled in.
beam_system_calls(g, before, after) ==
    IF before.tractor_beam.state = "Full" /\ after.tractor_beam.state = "Capturing"
    THEN start_capturing(g)
    ELSE IF before.tractor_beam.state = "Capturing"
            /\ after.tractor_beam.state = "Closing"
    THEN player_captured(g)
    ELSE g

\* The attack manager starts the capture attack of an Owl in formation.
attack_manager_start(o, g, start, player) ==
    IF start /\ o.is_formation /\ ~g.attack_paused /\ can_capture_attack(g)
    THEN ecs_owl_start_attack(o, player)
    ELSE o

\* The Owl system of a tick, and GameInfo after it.
ecs_owl_system(o, g, target) ==
    [owl |-> do_move_owl(o, target),
     game |-> owl_system_calls(g, o, do_move_owl(o, target))]

\* The beam system of a tick, and GameInfo after it.
ecs_beam_system(r, player, pulled_in) ==
    [owl |-> do_move_tractor_beam(r.owl, game_info_can_capture(r.game), player, pulled_in),
     game |-> beam_system_calls(r.game, r.owl,
                 do_move_tractor_beam(r.owl, game_info_can_capture(r.game), player,
                                      pulled_in))]

\* The systems of a tick after GameInfo::update: the attack manager, the
\* Owl system and the beam system.
ecs_systems(o, g, start, target, player, pulled_in) ==
    ecs_beam_system(ecs_owl_system(attack_manager_start(o, g, start, player), g, target),
                    player, pulled_in)

\* One tick of the game: GameInfo::update, told that there is no attacker
\* while the Owl stands in formation, and then the systems.
EcsGameTick(o, g, start, target, player, pulled_in) ==
    ecs_systems(o, game_info_update(g, o.is_formation, TRUE), start, target, player,
                pulled_in)

EcsGameOthersUnchanged ==
    /\ UNCHANGED <<enemies, event_queue, shot_paused, player_pos, player_state,
                   damage_result, capture_log>>
    /\ UNCHANGED <<stageVars, coreUtilVars>>

EcsGameFrame(start, pulled_in) ==
    /\ Running
    /\ game_info.game_state = "Captured" => game_info.count < MaxCapturedTicks
    /\ ecs_owl' = EcsGameTick(ecs_owl, game_info, start,
                              formation_pos((formation_phase + 1) % FormationPhases, OwlFi),
                              player_pos, pulled_in).owl
    /\ game_info' = EcsGameTick(ecs_owl, game_info, start,
                              formation_pos((formation_phase + 1) % FormationPhases, OwlFi),
                              player_pos, pulled_in).game
    /\ formation_phase' = (formation_phase + 1) % FormationPhases
    /\ EcsGameOthersUnchanged

\* The player's first fighter is hit while it is in play or in the beam,
\* and the Owl stands in formation or holds its beam open.
EcsCrashPlayer ==
    /\ game_info.game_state \in {"Playing", "Capturing"}
    /\ game_info.left_ship = DEFAULT_LEFT_SHIP
    /\ ecs_owl.is_formation \/ ecs_owl.tractor_beam.state \in {"Full", "Capturing"}
    /\ CrashPlayer(TRUE)

\* One of the two fighters of a dual player is hit.
EcsCrashDual ==
    /\ game_info.capture_state = "Dual"
    /\ CrashPlayer(FALSE)

\* The captured fighter has been taken to the formation.
EcsCaptureCompleted ==
    /\ game_info.game_state = "Captured"
    /\ CaptureCompleted

\* The Owl that has taken the fighter makes no further capture attack: the
\* attack manager turns to another Owl, which stands in formation.
EcsNextOwl ==
    /\ Running
    /\ ecs_owl.phase = "CaptureDonePushUp"
    /\ ecs_owl' = EcsOwlStable(OwlFi)
    /\ UNCHANGED <<stageVars, enemyVars, coreUtilVars, game_info>>

InitEcsGame ==
    /\ InitCommonBase
    /\ InitUtilCore
    /\ ecs_owl = EcsOwlStable(OwlFi)
    /\ enemies = [fi \in Slots |-> NoEnemy]
    /\ game_info = GameInfoNew

NextEcsGame ==
    \/ \E start \in BOOLEAN, pulled_in \in BOOLEAN : EcsGameFrame(start, pulled_in)
    \/ MovePlayer
    \/ EcsCrashPlayer
    \/ EcsCrashDual
    \/ EcsCaptureCompleted
    \/ Recapture
    \/ EcsNextOwl

SpecEcsGame == InitEcsGame /\ [][NextEcsGame]_vars

(***************************************************************************)
(* C23: the dispatch-table Owl and the entity-component Owl, stepped side  *)
(* by side on the same inputs, are in Formation state at the same ticks:   *)
(* one is back in formation exactly when the other is.                     *)
(***************************************************************************)
C23_OwlsBackInFormationTogether ==
    present(enemies, OwlFi) =>
        (enemies[OwlFi].state = "Formation" <=> ecs_owl.state = "Formation")

\* The two Owls agree on every capture attack in which no player is caught.
EquivUntilCaptured ==
    (present(enemies, OwlFi) /\ capture_log.CapturePlayer = 0
        /\ player_state \in {"playing", "dead"}) =>
        /\ enemies[OwlFi].state = "Formation" <=> ecs_owl.state = "Formation"
        /\ enemies[OwlFi].pos = ecs_owl.pos
        /\ enemies[OwlFi].angle = ecs_owl.angle
        /\ enemies[OwlFi].tractor_beam = ecs_owl.tractor_beam


(***************************************************************************)
(* An enemy that appears on its own, with a formation row before, on or    *)
(* after the last row, while the player moves and a dual fighter comes and *)
(* goes.                                                                   *)
(***************************************************************************)
AssaultFi == BeeFi
AssaultRows == {2, Y_COUNT - 1, Y_COUNT, Y_COUNT + 1}
DUAL_POS == VAdd(PLAYER_FAR, Vec(16 * ONE, 0))

InitAssault ==
    /\ InitCommonBase
    /\ InitUtil
    /\ \E enemy_type \in {"Bee", "Butterfly"}, row \in AssaultRows :
          enemies = [fi \in Slots |->
                       IF fi = AssaultFi
                       THEN AppearanceEnemy(enemy_type, <<0, row>>, BEE_START)
                       ELSE NoEnemy]

\* The dual fighter joins or leaves: what get_dual_player_pos answers changes.
DualChange ==
    /\ dual_player_pos' = IF dual_player_pos = <<>> THEN <<DUAL_POS>> ELSE <<>>
    /\ UNCHANGED <<partVars, stage_no, ecs_owl, game_info, stage_indicator>>
    /\ UNCHANGED <<stageVars, enemyVars>>

NextAssault ==
    \/ Frame(None)
    \/ MovePlayer
    \/ DualChange

SpecAssault == InitAssault /\ [][NextAssault]_vars

\* The appearance trajectory of the enemy ends in the update that comes next.
AppearanceEnds(me) ==
    /\ ~me.disappeared /\ me.state = "Appearance"
    /\ me.traj.table # "none" /\ ~TrajCont(TrajUpdate(me.traj))

(***************************************************************************)
(* C24: in the frame in which its appearance trajectory is exhausted, an   *)
(* enemy whose formation row is the last row or beyond becomes an Assault  *)
(* run whose target is the position of a live fighter, the primary or the  *)
(* dual one, and any other enemy enters MoveToFormation.  An enemy in      *)
(* Assault state stays in Assault state as long as it exists, and it is    *)
(* marked disappeared only in an update that found it at or below the      *)
(* screen bottom plus 8.                                                   *)
(***************************************************************************)
C24_AssaultRun ==
    [][\A fi \in Slots : present(enemies, fi) =>
          /\ (IsFrameStep /\ AppearanceEnds(enemies[fi])) =>
                /\ present(enemies', fi)
                /\ IF enemies[fi].formation_index[2] >= Y_COUNT
                   THEN /\ enemies'[fi].state = "Assault"
                        /\ enemies'[fi].target_pos
                              \in LivePlayers(player_pos, dual_player_pos)
                   ELSE enemies'[fi].state = "MoveToFormation"
          /\ (enemies[fi].state = "Assault" /\ present(enemies', fi)) =>
                /\ enemies'[fi].state = "Assault"
                /\ (enemies'[fi].disappeared /\ ~enemies[fi].disappeared) =>
                      enemies[fi].pos[2] >= (HEIGHT + 8) * ONE
      ]_vars

\* An assault on the dual fighter has left the screen.
C24_Witness ==
    /\ present(enemies, AssaultFi)
    /\ enemies[AssaultFi].state = "Assault"
    /\ enemies[AssaultFi].formation_index[2] = Y_COUNT
    /\ enemies[AssaultFi].target_pos = DUAL_POS
    /\ enemies[AssaultFi].disappeared


(***************************************************************************)
(* The shots of an attack on their own: one enemy starts an attack, runs   *)
(* Enemy::update_attack once a frame, restarts in rush and goes back to    *)
(* formation, at a stage drawn from StageNos.                              *)
(***************************************************************************)
MaxAttackFrames == 52
StageNos == {0, 7, 8, 15, 16, 24, 40}
ShooterType(fi) ==
    CASE fi = OwlFi -> "Owl"
      [] fi = BeeFi -> "Bee"
      [] fi = ButterflyFi -> "Butterfly"
      [] OTHER -> "CapturedFighter"

\* The shots of the attacker itself in the attack that runs, counted.
NoShots == [EneShot |-> 0]

ShotsAccessor ==
    [phase |-> formation_phase, is_rush |-> stage_state = "RUSH",
     player_pos |-> player_pos, can_player_capture |-> FALSE,
     is_player_capture_completed |-> FALSE, stage_no |-> stage_no,
     assault_target |-> player_pos]

ShotsWorld == [en |-> enemies, ev |-> <<>>, shot_paused |-> shot_paused]

InitShots ==
    /\ InitCommonBase
    /\ InitParts
    /\ dual_player_pos = <<>>
    /\ ecs_owl = NoEcsOwl
    /\ game_info = NoGameInfo
    /\ stage_indicator = StageIndicatorNew
    /\ stage_no \in StageNos
    /\ \E shooter \in Slots :
          enemies = [fi \in Slots |->
                       IF fi = shooter THEN StableEnemy(ShooterType(fi), fi) ELSE NoEnemy]

ShotsCommit(w, op, log) ==
    /\ enemies' = w.en
    /\ event_queue' = w.ev
    /\ shot_paused' = w.shot_paused
    /\ capture_log' = log
    /\ stage_op' = op
    /\ UNCHANGED <<formation_phase, player_pos, player_state, damage_result>>
    /\ UNCHANGED <<stage_state, alive_enemy_count, appearance_done, attack_enabled,
                   stage_prev, utilVars>>

\* Enemy::set_attack on an enemy in formation
ShotsStart(fi) ==
    /\ present(enemies, fi) /\ enemies[fi].state = "Formation"
    /\ ShotsCommit(set_attack(ShotsWorld, fi, FALSE, ShotsAccessor), "set_attack", NoShots)

\* Enemy::update_attack in a frame of the attack
ShotsTick(fi) ==
    LET own(w) == Len(SelectSeq(w.ev, LAMBDA e : e = <<"EneShot", fi>>))
        shot(w) == ShotsCommit(w, "update_attack",
                               [EneShot |-> capture_log.EneShot + own(w)])
    IN  /\ present(enemies, fi) /\ enemies[fi].state = "Attack"
        /\ enemies[fi].attack_frame_count < MaxAttackFrames
        /\ shot(update_attack(ShotsWorld, fi, ShotsAccessor))

\* Enemy::rush_attack at the end of an attack table in rush
ShotsRush(fi) ==
    /\ present(enemies, fi) /\ enemies[fi].state = "Attack"
    /\ enemies[fi].attack_frame_count > 0
    /\ ShotsCommit(setme(ShotsWorld, fi, rush_attack(enemies[fi])), "rush_attack", NoShots)

\* The attack is over: Enemy::set_to_formation
ShotsBack(fi) ==
    /\ present(enemies, fi) /\ enemies[fi].state = "Attack"
    /\ enemies[fi].attack_frame_count > 0
    /\ ShotsCommit(setme(ShotsWorld, fi, set_to_formation(enemies[fi])),
                   "set_to_formation", capture_log)

NextShots ==
    \/ \E fi \in Slots : ShotsStart(fi)
    \/ \E fi \in Slots : ShotsTick(fi)
    \/ \E fi \in Slots : ShotsRush(fi)
    \/ \E fi \in Slots : ShotsBack(fi)

SpecShots == InitShots /\ [][NextShots]_vars

(***************************************************************************)
(* C25: in an attack run at stage s, with shot_count = min(2 + s/8, 5) and *)
(* interval = 20 - 2 * shot_count, update_attack emits the attacker's own  *)
(* EneShot in the frames interval * j, j = 1..shot_count, of the attack    *)
(* and in no other frame, so the run has at most shot_count own shots; the *)
(* frame counter is 0 after every start of an attack and every restart in  *)
(* rush.                                                                   *)
(***************************************************************************)
C25_ShotCadence ==
    \A fi \in Slots : (present(enemies, fi) /\ enemies[fi].state = "Attack") =>
        LET frame == enemies[fi].attack_frame_count
            shot_count == IF 2 + stage_no \div 8 < 5 THEN 2 + stage_no \div 8 ELSE 5
            interval == 20 - 2 * shot_count
            frames == {interval * j : j \in 1..shot_count}
            own == \E i \in 1..Len(event_queue) : event_queue[i] = <<"EneShot", fi>>
        IN  /\ stage_op = "update_attack" => (own <=> frame \in frames)
            /\ capture_log.EneShot = Cardinality({f \in frames : f <= frame})
            /\ capture_log.EneShot <= shot_count
            /\ stage_op \in {"set_attack", "rush_attack"} => frame = 0

\* The fifth and last shot of an attack at stage 40, in frame 50.
C25_Witness ==
    /\ stage_no = 40 /\ stage_op = "update_attack"
    /\ present(enemies, BeeFi) /\ enemies[BeeFi].state = "Attack"
    /\ enemies[BeeFi].attack_frame_count = 50
    /\ capture_log.EneShot = 5
    /\ event_queue = <<<<"EneShot", BeeFi>>>>


(***************************************************************************)
(* C26: a capture attack in which no player is caught.  The beam leaves    *)
(* Full for Closing by the timeout only, after 180 ticks fully open; the   *)
(* Owl that finds its beam closed drops it and flies out at speed 5/2;     *)
(* below the screen bottom plus 8 it is warped above the screen into its   *)
(* formation column and, when the stage is not in rush, enters             *)
(* MoveToFormation, with EndCaptureAttack emitted once and no              *)
(* CapturePlayer in that attack.  The same holds of the entity-component   *)
(* Owl and its beam.                                                       *)
(***************************************************************************)
FlyOutSpeed == TruncDiv(5 * ONE, 2)

C26_CoreTimeout(me, after, column, is_rush, evs, log) ==
    /\ (me.tractor_beam.state = "Full" /\ after.tractor_beam.state = "Closing") =>
          /\ me.tractor_beam.count = TRACTOR_BEAM_FULL_TICKS - 1
          /\ after.tractor_beam.count = TRACTOR_BEAM_FULL_TICKS
    /\ (me.update_fn = "update_attack_capture_beam"
          /\ tractor_beam_closed(me.tractor_beam)) =>
          /\ after.tractor_beam = NoBeam
          /\ after.speed = FlyOutSpeed
          /\ after.update_fn = "update_attack_capture_go_out"
    /\ (me.update_fn = "update_attack_capture_go_out"
          /\ me.pos[2] >= (HEIGHT + 8) * ONE) =>
          /\ after.pos[1] = column /\ after.pos[2] < 0
          /\ ~is_rush =>
                /\ after.state = "MoveToFormation"
                /\ Len(SelectSeq(evs, LAMBDA e : e[1] = "EndCaptureAttack")) = 1
                /\ log.EndCaptureAttack = 1
                /\ log.CapturePlayer = 0

C26_EcsTimeout(o, after, column) ==
    /\ (o.tractor_beam.state = "Full" /\ after.tractor_beam.state = "Closing") =>
          /\ o.tractor_beam.count = TRACTOR_BEAM_FULL_TICKS - 1
          /\ after.tractor_beam.count = TRACTOR_BEAM_FULL_TICKS
    /\ (o.state = "CaptureAttack" /\ o.phase = "CaptureBeam"
          /\ tractor_beam_closed(o.tractor_beam)) =>
          /\ after.tractor_beam = NoBeam
          /\ after.speed = FlyOutSpeed
          /\ after.phase = "NoCaptureGoOut"
    /\ (o.state = "CaptureAttack" /\ o.phase = "NoCaptureGoOut"
          /\ o.pos[2] >= (HEIGHT + 8) * ONE) =>
          /\ after.pos[1] = column /\ after.pos[2] < 0
          /\ after.state = "MoveToFormation"
          /\ after.end_capture_attack = 1
          /\ after.capture_player = 0

\* C26, frame by frame, of the dispatch-table Owl and of the Owl entity.
C26_BeamTimeoutFlyOut ==
    [][IsFrameStep =>
          /\ (present(enemies, OwlFi) /\ present(enemies', OwlFi)
                /\ ~enemies[OwlFi].disappeared) =>
                C26_CoreTimeout(enemies[OwlFi], enemies'[OwlFi],
                                formation_pos(formation_phase', OwlFi)[1],
                                stage_state = "RUSH", event_queue', capture_log')
          /\ ecs_owl # NoEcsOwl =>
                C26_EcsTimeout(ecs_owl, ecs_owl', formation_pos(formation_phase', OwlFi)[1])
      ]_vars

\* Both Owls are on their way back after a beam that caught nobody.
C26_Witness ==
    /\ present(enemies, OwlFi)
    /\ enemies[OwlFi].state = "MoveToFormation"
    /\ enemies[OwlFi].pos[2] < 0
    /\ capture_log.EndCaptureAttack = 1 /\ capture_log.CapturePlayer = 0
    /\ ecs_owl # NoEcsOwl
    /\ ecs_owl.state = "MoveToFormation" /\ ecs_owl.end_capture_attack = 1
    /\ ecs_owl.pos[2] < 0


(***************************************************************************)
(* The stage with hits of every strength, a hit without power among them.  *)
(***************************************************************************)
DamagePowers == {0, 1, 2}

NextDamage ==
    \/ \E att \in TrajAttackChoices : Frame(att)
    \/ \E fi \in Slots, power \in DamagePowers : CheckCollision(fi, power)

SpecDamage == Init /\ [][NextDamage]_vars

\* The points of a Bee, a Butterfly or a captured fighter shot in formation.
FormationPoint(enemy_type) ==
    CASE enemy_type = "Bee" -> 50
      [] enemy_type = "Butterfly" -> 80
      [] enemy_type = "CapturedFighter" -> 500

\* Hits without power, weak hits and a hit far stronger than any life.
HitPowers == 0..3 \cup {2147483647}

(***************************************************************************)
(* C27: set_damage(power) of a Bee, a Butterfly or a captured fighter.     *)
(* With power < life the life goes down by power, the enemy is not killed  *)
(* and the hit gives 0 points.  With power >= life the life is 0, never    *)
(* below, the enemy is killed and the hit gives the points of the type:    *)
(* the formation value in Formation state and twice that in any other.     *)
(***************************************************************************)
C27_ZakoDamage ==
    \A fi \in Slots, power \in HitPowers :
        (present(enemies, fi) /\ enemies[fi].enemy_type # "Owl") =>
            LET me == enemies[fi]
                r == set_damage(CurrentWorld, fi, power)
                after == r.w.en[fi]
            IN  IF power < me.life
                THEN /\ after.life = me.life - power
                     /\ ~r.killed /\ r.point = 0
                ELSE /\ after.life = 0
                     /\ r.killed
                     /\ r.point = IF me.state = "Formation"
                                  THEN FormationPoint(me.enemy_type)
                                  ELSE 2 * FormationPoint(me.enemy_type)

\* A Bee in its attack has been hit without power and lives, beside a
\* captured fighter that stands in formation.
C27_Witness ==
    /\ damage_result # NoDamage /\ damage_result.fi = BeeFi
    /\ ~damage_result.lethal /\ ~damage_result.killed /\ damage_result.point = 0
    /\ present(enemies, BeeFi) /\ enemies[BeeFi].life = 1
    /\ enemies[BeeFi].state = "Attack"
    /\ present(enemies, CapturedFi) /\ enemies[CapturedFi].state = "Formation"


\* The step is one update of the enemies: a frame of the stage, or an update
\* of the move-to-formation loop.
IsEnemyUpdate == IsFrameStep \/ move_ticks' = move_ticks + 1

\* The squared distance at the precision the comparison is made with.
SqDistance(diff) == square(Shr(diff[1], ONE_BIT \div 2)) + square(Shr(diff[2], ONE_BIT \div 2))

(***************************************************************************)
(* C28: an update of an enemy in MoveToFormation state.  While the squared *)
(* distance to the target is above the squared speed the heading turns     *)
(* toward the target by at most speed * 5 / 3, the angular velocity is     *)
(* zeroed and the enemy stays in MoveToFormation.  In the update in which  *)
(* the squared distance is at most the squared speed the enemy is put on   *)
(* the target with speed 0, its capturing state is cleared, its troops are *)
(* released, and it is in Formation state when the update ends.            *)
(***************************************************************************)
C28_MoveToFormationStep ==
    [][IsEnemyUpdate => \A fi \in Slots :
          (present(enemies, fi) /\ enemies[fi].state = "MoveToFormation"
             /\ ~enemies[fi].disappeared /\ present(enemies', fi)) =>
          LET me == enemies[fi]
              after == enemies'[fi]
              target == formation_pos(formation_phase', me.formation_index)
              diff == VSub(target, me.pos)
              d == diff_angle(atan2_lut(-diff[2], diff[1]), me.angle)
              turn == after.angle - me.angle
          IN  IF SqDistance(diff) > square(Shr(me.speed, ONE_BIT \div 2))
              THEN /\ Abs(turn) <= TruncDiv(me.speed * 5, 3)
                   /\ Abs(turn) <= Abs(d)
                   /\ (d > 0 => turn >= 0) /\ (d < 0 => turn <= 0)
                   /\ after.vangle = 0
                   /\ after.state = "MoveToFormation"
              ELSE /\ after.pos = target
                   /\ after.speed = 0
                   /\ after.capturing_state = "None"
                   /\ TroopSet(after) = {}
                   /\ \A t \in TroopSet(me) :
                         (present(enemies, t) /\ present(enemies', t)) =>
                            enemies'[t].state = "Formation"
                   /\ after.state = "Formation"
      ]_vars

\* The Owl is back on its slot after an attack, without troops, and the
\* Butterfly stands in formation.
C28_Witness ==
    /\ stage_op = "update"
    /\ present(enemies, OwlFi) /\ enemies[OwlFi].state = "Formation"
    /\ enemies[OwlFi].attack_frame_count > 0
    /\ enemies[OwlFi].pos = formation_pos(formation_phase, OwlFi)
    /\ enemies[OwlFi].speed = 0
    /\ TroopSet(enemies[OwlFi]) = {}
    /\ present(enemies, ButterflyFi) /\ enemies[ButterflyFi].state = "Formation"


(***************************************************************************)
(* An enemy that has just been set to formation with some heading, and     *)
(* Enemy::update once a tick from there.                                   *)
(***************************************************************************)
MaxSettleTicks == 66
SettleFi == BeeFi
SettleAngles == {0, 1, -1, 511, 512, 513, -513, 5000, -5000,
                 FULL_TURN \div 2, 1 - FULL_TURN \div 2,
                 FULL_TURN + 700, 3 * (FULL_TURN \div 4)}

\* Enemy::set_to_formation on an enemy that arrives with the heading angle.
SettlingEnemy(enemy_type, fi, angle) ==
    set_to_formation([EnemyNew(enemy_type, formation_pos(0, fi), angle, 0)
                         EXCEPT !.formation_index = fi])

InitSettle ==
    /\ InitCommonBase
    /\ formation = FormationNew
    /\ attackers = 0
    /\ tick_log = NoTickLog
    /\ old_manager = OldManagerNew
    /\ pad = PadDefault
    /\ InitSide
    /\ move_ticks = 0
    /\ \E enemy_type \in {"Bee", "Owl"}, angle \in SettleAngles :
          LET me == SettlingEnemy(enemy_type, SettleFi, angle)
          IN  /\ enemies = [fi \in Slots |-> IF fi = SettleFi THEN me ELSE NoEnemy]
              /\ move_mark = [settle_angle |-> me.angle]

\* Enemy::update of the enemy in formation, the formation swinging.
SettleTick ==
    LET phase == (formation_phase + 1) % FormationPhases
        w == [en |-> enemies, ev |-> <<>>, shot_paused |-> shot_paused]
        acc == [phase |-> phase,
                is_rush |-> FALSE,
                player_pos |-> player_pos,
                can_player_capture |-> FALSE,
                is_player_capture_completed |-> FALSE,
                stage_no |-> stage_no,
                assault_target |-> player_pos]
    IN  /\ move_ticks < MaxSettleTicks
        /\ enemies[SettleFi].state = "Formation"
        /\ enemies' = enemy_update(w, SettleFi, acc).en
        /\ formation_phase' = phase
        /\ move_ticks' = move_ticks + 1
        /\ UNCHANGED <<event_queue, shot_paused, player_pos, player_state,
                       damage_result, capture_log, move_mark>>
        /\ UNCHANGED <<formation, attackers, tick_log, old_manager, pad, sideVars>>
        /\ UNCHANGED stageVars

NextSettle == SettleTick

SpecSettle == InitSettle /\ [][NextSettle]_vars

\* What is left of an angle after the given number of steps toward zero.
Decayed(angle, steps) ==
    LET left == Abs(angle) - steps * (FULL_TURN \div 128)
    IN  IF left <= 0 THEN 0 ELSE IF angle > 0 THEN left ELSE -left

(***************************************************************************)
(* C29: an update of an enemy that is and stays in Formation state takes   *)
(* its angle one fixed step toward zero.  The magnitude of the angle never *)
(* goes up, the angle never changes sign and never passes zero, an angle   *)
(* of 0 stays 0, and an enemy that entered the formation with angle a has  *)
(* the angle a less n steps, cut at zero, after n updates: exactly 0 from  *)
(* the update on in which the steps make up for a.                         *)
(***************************************************************************)
C29_FormationAngleDecay ==
    [][IsEnemyUpdate => \A fi \in Slots :
          (present(enemies, fi) /\ enemies[fi].state = "Formation"
             /\ present(enemies', fi) /\ enemies'[fi].state = "Formation") =>
          LET a == enemies[fi].angle
              b == enemies'[fi].angle
          IN  /\ Abs(b) <= Abs(a)
              /\ (a >= 0 => b >= 0) /\ (a <= 0 => b <= 0)
              /\ b = Decayed(a, 1)
              /\ (fi = SettleFi /\ "settle_angle" \in DOMAIN move_mark) =>
                    b = Decayed(move_mark.settle_angle, move_ticks')
      ]_vars

\* An enemy that arrived turned by 513 units stands straight after two
\* updates and has stayed so.
C29_Witness ==
    /\ "settle_angle" \in DOMAIN move_mark
    /\ move_mark.settle_angle = 513
    /\ move_ticks = 5
    /\ enemies[SettleFi].state = "Formation"
    /\ enemies[SettleFi].angle = 0


\* The phase changes of a tractor beam, and the Owl entity gaining and
\* losing its beam component.
BeamPhaseChanges ==
    {<<"Opening", "Full">>, <<"Full", "Capturing">>, <<"Full", "Closing">>,
     <<"Capturing", "Closing">>, <<"Closing", "Closed">>}
BeamComponentChanges == {<<"none", "Opening">>, <<"Closed", "none">>}

(***************************************************************************)
(* C30: the tractor beam of the Owl entity changes its phase only from     *)
(* Opening to Full, from Full to Capturing (the player can be captured and *)
(* is in range), from Full to Closing (after 180 ticks in Full), from      *)
(* Capturing to Closing (the player has been pulled in) and from Closing   *)
(* to Closed; a Closed beam stays Closed until the Owl drops it.  The Owl  *)
(* enters the capture-done wait, with its counter at 0, in the tick in     *)
(* which its beam reaches Closed with a captured player, and in no other.  *)
(***************************************************************************)
C30_BeamPhases ==
    [][(IsFrameStep /\ ecs_owl # NoEcsOwl) =>
          LET tb == ecs_owl.tractor_beam
              after == ecs_owl'.tractor_beam
              player == handle_events([en |-> enemies, player |-> player_state],
                                      event_queue).player
              closes == tb.state # "Closed" /\ after.state = "Closed"
              waits == ecs_owl.phase # "CaptureDoneWait"
                          /\ ecs_owl'.phase = "CaptureDoneWait"
          IN  /\ tb.state # after.state =>
                    <<tb.state, after.state>> \in BeamPhaseChanges \cup BeamComponentChanges
              /\ (tb.state = "Full" /\ after.state = "Capturing") =>
                    /\ player = "playing"
                    /\ Abs(player_pos[1] - tb.pos[1]) <= 24 * ONE
              /\ (tb.state = "Full" /\ after.state = "Closing") =>
                    /\ tb.count = 3 * 60 - 1 /\ after.count = 3 * 60
              /\ (tb.state = "Capturing" /\ after.state = "Closing") =>
                    player = "captured"
              /\ waits <=> (closes /\ ecs_owl'.capturing_player)
              /\ waits => (ecs_owl'.count = 0 /\ ecs_owl'.state = "CaptureAttack")
      ]_vars

\* The beam has closed on a captured player and the Owl entity waits.
C30_Witness ==
    /\ ecs_owl # NoEcsOwl
    /\ ecs_owl.tractor_beam.state = "Closed" /\ ecs_owl.capturing_player
    /\ ecs_owl.phase = "CaptureDoneWait" /\ ecs_owl.count = 0

\* The update functions of the capture attack during which the Owl holds a beam.
BeamPhases ==
    {"update_attack_capture_beam", "update_attack_capture_start",
     "update_attack_capture_close_beam"}

(***************************************************************************)
(* C31: an enemy owns a tractor beam only while it is an Owl in Attack     *)
(* state whose update function is the beam-open, the capturing or the      *)
(* beam-closing phase of a capture attack; capturing_state is BeamTracting *)
(* only while that beam is present; and no enemy in Formation,             *)
(* MoveToFormation, Assault or Troop state owns a beam.                    *)
(***************************************************************************)
C31_BeamOwner ==
    \A fi \in Slots :
        present(enemies, fi) =>
            LET me == enemies[fi]
            IN  /\ me.tractor_beam.state # "none" =>
                      /\ me.enemy_type = "Owl"
                      /\ me.state = "Attack"
                      /\ me.update_fn \in BeamPhases
                /\ me.capturing_state = "BeamTracting" => me.tractor_beam.state # "none"
                /\ me.state \in {"Formation", "MoveToFormation", "Assault", "Troop"} =>
                      me.tractor_beam.state = "none"

\* An Owl closes its beam on the player it holds.
C31_Witness ==
    /\ present(enemies, OwlFi)
    /\ enemies[OwlFi].capturing_state = "BeamTracting"
    /\ enemies[OwlFi].update_fn = "update_attack_capture_close_beam"
    /\ enemies[OwlFi].tractor_beam.state = "Closing"

\* The Owl is in the push-up phase of a capture attack.
InPushUp(en) ==
    /\ present(en, OwlFi)
    /\ en[OwlFi].update_fn = "update_attack_capture_push_up"

\* A frame in the push-up phase without the captured fighter, the heading
\* already level, leaves the Owl as it was.
PushUpStuck ==
    [][(IsFrameStep /\ InPushUp(enemies) /\ ~present(enemies, CapturedFi)
           /\ enemies[OwlFi].angle = 0 /\ present(enemies', OwlFi)) =>
          /\ enemies'[OwlFi] = enemies[OwlFi]
          /\ ~present(enemies', CapturedFi)
          /\ EventIndices(event_queue', "CaptureSequenceEnded") = {}]_vars

(***************************************************************************)
(* C32: an Owl in the push-up phase of a capture attack ends the sequence  *)
(* and reaches Formation, whether or not the captured fighter above it     *)
(* still exists.  Stated frame by frame: once the Owl's heading is level,  *)
(* every frame of the push-up phase either emits CaptureSequenceEnded and  *)
(* puts the Owl in Formation, or raises the captured fighter.              *)
(***************************************************************************)
C32_PushUpEnds ==
    [][(IsFrameStep /\ InPushUp(enemies) /\ enemies[OwlFi].angle = 0
           /\ present(enemies', OwlFi)) =>
          \/ /\ EventIndices(event_queue', "CaptureSequenceEnded") # {}
             /\ enemies'[OwlFi].state = "Formation"
          \/ /\ present(enemies, CapturedFi) /\ present(enemies', CapturedFi)
             /\ enemies'[CapturedFi].pos[2] < enemies[CapturedFi].pos[2]]_vars

\* The Owl at fi leads the captured fighter of the slot above it.
LeadsCapturedFighter(en, fi) ==
    /\ en[fi].enemy_type = "Owl"
    /\ <<fi[1], fi[2] - 1>> \in TroopSet(en[fi])

(***************************************************************************)
(* C33: whenever an Owl whose troop list contains the captured fighter at  *)
(* slot (x, y-1) takes lethal damage, in any phase after                   *)
(* CapturePlayerCompleted, the hit emits RecapturePlayer for that slot.    *)
(***************************************************************************)
C33_RecaptureOnLethalDamage ==
    [][\A fi \in Slots :
          (/\ damage_result = NoDamage
           /\ damage_result'.fi = fi
           /\ damage_result'.lethal
           /\ LeadsCapturedFighter(enemies, fi))
              => \E i \in 1..Len(Released(event_queue, event_queue')) :
                    Released(event_queue, event_queue')[i] =
                        <<"RecapturePlayer", <<fi[1], fi[2] - 1>>>>]_vars

\* What the code does in that case: RecapturePlayer is emitted if and only if
\* the capturing state of the Owl is None; during the hold and the flight
\* back it is Attacking, and the hit emits EndCaptureAttack and removes the
\* Owl while the captured fighter stays in Troop state.
RecaptureOnlyWhenNone ==
    [][\A fi \in Slots :
          (/\ damage_result = NoDamage
           /\ damage_result'.fi = fi
           /\ damage_result'.lethal
           /\ LeadsCapturedFighter(enemies, fi))
              => IF enemies[fi].capturing_state = "None"
                 THEN Released(event_queue, event_queue') =
                         <<<<"RecapturePlayer", <<fi[1], fi[2] - 1>>>>>>
                 ELSE /\ enemies[fi].capturing_state = "Attacking"
                      /\ enemies[fi].update_fn \in
                            {"update_attack_capture_capture_done_wait",
                             "update_attack_capture_back"}
                      /\ Released(event_queue, event_queue') =
                            <<<<"EndCaptureAttack", fi>>>>
                      /\ ~present(enemies', fi)
                      /\ present(enemies', <<fi[1], fi[2] - 1>>) =>
                            enemies'[<<fi[1], fi[2] - 1>>].state = "Troop"]_vars

\* The three slots an Owl at fi takes its troops from.
TroopCandidates(fi) ==
    {<<fi[1] - 1, fi[2] + 1>>, <<fi[1] + 1, fi[2] + 1>>, <<fi[1], fi[2] - 1>>}

\* The Owl at fi may be sent to attack.
CanStartAttack(w, fi) ==
    /\ exists_at(w, fi)
    /\ w.en[fi].enemy_type = "Owl"
    /\ w.en[fi].state = "Formation"

\* set_attack of the Owl at fi, as a trajectory attack, in world w.
TrajAttackStarted(w, fi) ==
    LET after == set_attack(w, fi, FALSE, [player_pos |-> player_pos])
        chosen == {t \in TroopCandidates(fi) :
                      exists_at(w, t) /\ w.en[t].state = "Formation"}
    IN  /\ TroopSet(after.en[fi]) = chosen
        /\ \A t \in chosen : after.en[t].state = "Troop"
        /\ \A t \in Slots \ (chosen \cup {fi}) : after.en[t] = w.en[t]

\* set_attack of the Owl at fi, as a capture attack, in world w.
CaptureAttackStarted(w, fi) ==
    LET after == set_attack(w, fi, TRUE, [player_pos |-> player_pos])
    IN  /\ TroopSet(after.en[fi]) = {}
        /\ \A t \in Slots \ {fi} : after.en[t] = w.en[t]

\* release_troops of the leader at fi in world w.
TroopsReleased(w, fi) ==
    LET after == release_troops(w, fi)
    IN  /\ TroopSet(after.en[fi]) = {}
        /\ \A t \in TroopSet(w.en[fi]) :
              exists_at(w, t) => after.en[t].state = "Formation"

(***************************************************************************)
(* C34: when an Owl starts a trajectory attack its troop list names        *)
(* exactly those of the slots (x-1, y+1), (x+1, y+1), (x, y-1) whose enemy *)
(* is present and in Formation state, and each of them is then in Troop    *)
(* state; when it starts a capture attack its troop list is empty; after   *)
(* release_troops every former troop that is still present is in Formation *)
(* state and the leader's list is empty; and an enemy in Formation state   *)
(* never has troops.                                                       *)
(***************************************************************************)
C34_TroopLists ==
    \A fi \in Slots :
        present(enemies, fi) =>
            /\ CanStartAttack(CurrentWorld, fi) =>
                  /\ TrajAttackStarted(CurrentWorld, fi)
                  /\ CaptureAttackStarted(CurrentWorld, fi)
            /\ TroopsReleased(CurrentWorld, fi)
            /\ enemies[fi].state = "Formation" => TroopSet(enemies[fi]) = {}

\* An Owl flies a trajectory attack with the Butterfly below it and the
\* captured fighter above it as troops while the Bee, which was still
\* appearing when the attack began, is not among them.
C34_Witness ==
    /\ present(enemies, OwlFi) /\ enemies[OwlFi].state = "Attack"
    /\ enemies[OwlFi].update_fn = "update_attack_traj"
    /\ TroopSet(enemies[OwlFi]) = {ButterflyFi, CapturedFi}
    /\ enemies[ButterflyFi].state = "Troop" /\ enemies[CapturedFi].state = "Troop"
    /\ present(enemies, BeeFi) /\ enemies[BeeFi].state # "Troop"

\* The step is a collision that damages an enemy.
IsDamageStep == damage_result = NoDamage /\ damage_result' # NoDamage

\* The EnemyExplosion events for the enemy at fi that the step emits.
ExplosionsAdded(fi) ==
    LET emitted == IF IsDamageStep
                   THEN SubSeq(event_queue', Len(event_queue) + 1, Len(event_queue'))
                   ELSE IF IsFrameStep THEN event_queue' ELSE <<>>
    IN  Len(SelectSeq(emitted, LAMBDA e : e = <<"EnemyExplosion", fi>>))

(***************************************************************************)
(* C35: a ghost has no collision box, so damage never reaches it again,    *)
(* and each enemy yields points and an EnemyExplosion at most once in its  *)
(* life.  Step by step: only a collision yields points or an explosion, and*)
(* then both, once; it hits an enemy that still has life and leaves it     *)
(* removed or a ghost; a ghost is never hit and stays a ghost until it is  *)
(* removed.                                                                *)
(***************************************************************************)
C35_PointsOnce ==
    [][\A fi \in Slots :
          LET points == IF IsDamageStep /\ damage_result'.fi = fi
                        THEN damage_result'.point ELSE 0
          IN  /\ (points > 0 \/ ExplosionsAdded(fi) > 0) =>
                    /\ points > 0 /\ ExplosionsAdded(fi) = 1
                    /\ present(enemies, fi) /\ ~is_ghost(enemies[fi])
                    /\ ~present(enemies', fi) \/ is_ghost(enemies'[fi])
              /\ (present(enemies, fi) /\ is_ghost(enemies[fi])) =>
                    /\ ~(IsDamageStep /\ damage_result'.fi = fi)
                    /\ ~present(enemies', fi) \/ is_ghost(enemies'[fi])
      ]_vars

\* An Owl has been hit lethally for points and stays as a ghost.
C35_Witness ==
    /\ damage_result # NoDamage /\ damage_result.fi = OwlFi
    /\ damage_result.point > 0 /\ ~damage_result.killed
    /\ present(enemies, OwlFi) /\ is_ghost(enemies[OwlFi])
    /\ \E i \in 1..Len(event_queue) : event_queue[i] = <<"EnemyExplosion", OwlFi>>

\* EnemyManager::all_destroyed of the stage manager's enemy manager: no enemy
\* is left.
enemy_manager_all_destroyed == alive_enemy_count = 0

\* StageManager::all_destroyed
all_destroyed ==
    /\ stage_state = "CLEARED"
    /\ enemy_manager_all_destroyed

(***************************************************************************)
(* C36: all_destroyed() is false as long as the appearance manager is not  *)
(* done, although no enemy is alive when a stage starts; when it is true   *)
(* the appearance is done, the stage has left its Appearance state and no  *)
(* enemy remains.                                                          *)
(***************************************************************************)
C36_AllDestroyedAfterAppearance ==
    /\ ~appearance_done => (stage_state = "APPEARANCE" /\ ~all_destroyed)
    /\ all_destroyed => (appearance_done /\ alive_enemy_count = 0)

\* A stage has been updated during its appearance while no enemy was alive.
C36_Witness ==
    /\ stage_op = "update"
    /\ ~appearance_done
    /\ alive_enemy_count = 0
    /\ ~all_destroyed

\* The fields of GameInfo, without the record of the calls.
GameFields(g) ==
    <<g.left_ship, g.game_state, g.count, g.capture_state, g.attack_paused,
      g.appearance_paused, g.shot_enabled, g.panicked>>

\* What next_player does according to the sequence: one ship less, and the
\* game is over when that was the last one.
TakesOneShip(g, h) ==
    /\ h.panicked = ""
    /\ g.left_ship >= 1
    /\ h.left_ship = g.left_ship - 1
    /\ h.count = 0
    /\ IF h.left_ship = 0
       THEN h.game_state = "GameOver" /\ h.appearance_paused /\ h.attack_paused
       ELSE h.game_state = "WaitReady2"

\* One call of crash_player(true) or of update, as the sequence from the
\* player's death to the next ship has it.
DeathSequenceStep(g, h) ==
    /\ (h.op = "crash_player_died" /\ g.game_state # "Recapturing") =>
          /\ h.attack_paused
          /\ h.game_state = "PlayerDead" /\ h.count = 0
    /\ (h.op = "update" /\ g.game_state = "PlayerDead") =>
          IF g.waited = 59
          THEN h.game_state = "WaitReady" /\ h.count = 0
          ELSE h.game_state = "PlayerDead" /\ g.waited < 59
    /\ (h.op = "update" /\ g.game_state = "WaitReady" /\ g.entered_by = "update") =>
          IF ~h.saw_no_attacker THEN GameFields(h) = GameFields(g)
          ELSE IF g.waited = 59 THEN TakesOneShip(g, h)
          ELSE h.game_state = "WaitReady" /\ g.waited < 59 /\ h.waited = g.waited + 1
    /\ (h.op = "update" /\ g.game_state = "WaitReady2") =>
          IF g.waited = 59
          THEN h.game_state = "Playing" /\ ~h.attack_paused /\ h.count = 0
          ELSE h.game_state = "WaitReady2" /\ g.waited < 59
    /\ (h.op = "update" /\ g.game_state = "GameOver") =>
          GameFields(h) = GameFields(g)

(***************************************************************************)
(* C37: after crash_player(true) outside Recapturing the attacks are       *)
(* paused and the game is in PlayerDead; the 60th update after that enters *)
(* WaitReady; the 60th update that finds no attacker calls next_player,    *)
(* which takes one ship and enters WaitReady2, or GameOver with appearance *)
(* and attacks paused when that was the last ship; the 60th update in      *)
(* WaitReady2 enters Playing with the attacks no longer paused; and update *)
(* changes nothing in GameOver.                                            *)
(***************************************************************************)
C37_DeathSequence ==
    [][(Running /\ game_info' # game_info) =>
          DeathSequenceStep(game_info, game_info')]_vars

\* The sequence is kept by every call made while a ship is left.
DeathSequenceWithShips ==
    [][(Running /\ game_info' # game_info /\ game_info.left_ship >= 1) =>
          DeathSequenceStep(game_info, game_info')]_vars

(***************************************************************************)
(* C38: left_ship never underflows: next_player is called only while a     *)
(* ship is left, whatever the order of the calls of update, crash_player,  *)
(* capture_player, player_captured and capture_completed.                  *)
(***************************************************************************)
C38_NoUnderflow ==
    game_info # NoGameInfo =>
        /\ ~game_info.underflow
        /\ game_info.left_ship \in 0..DEFAULT_LEFT_SHIP

\* The calls cannot underflow before the game is over: while the game has
\* never been over a ship is left, and the game is over exactly when none is.
ShipsLeftUntilGameOver ==
    [][(Running /\ game_info.left_ship >= 1
          /\ ~(game_info.game_state = "GameOver")) =>
             /\ ~game_info'.underflow
             /\ game_info'.left_ship >= 0
             /\ game_info'.left_ship = 0 => game_info'.game_state = "GameOver"]_vars

(***************************************************************************)
(* C39: the assertion of end_capture_attack always holds: it is never      *)
(* called while capture_state is Captured, because the Owl is in the       *)
(* no-capture fly-out phase only when its beam has closed without having   *)
(* started to capture the player.                                          *)
(***************************************************************************)
C39_EndCaptureAttackAsserts ==
    /\ game_info.panicked # "end_capture_attack"
    /\ ecs_owl.phase = "NoCaptureGoOut" =>
          /\ ~ecs_owl.capturing_player
          /\ ecs_owl.capture_player = 0
          /\ game_info.capture_state # "Captured"

\* end_capture_attack has been called, in a game that has seen a capture.
C39_Witness ==
    /\ game_info.op = "end_capture_attack"
    /\ ecs_owl.end_capture_attack = 1
    /\ game_info.capture_state = "NoCapture"

(***************************************************************************)
(* StageIndicator (effect/stage_indicator.rs): the flags at the bottom of  *)
(* the screen count up to the number of the stage.                         *)
(***************************************************************************)
MaxStage == 100

\* FLAG_INFO_TABLE: the count of each flag, largest first.
FLAG_INFO_TABLE == <<50, 30, 20, 10, 5, 1>>

\* StageIndicator::set_stage
set_stage(s, stage) ==
    [s EXCEPT !.stage = stage, !.wait = 0, !.stage_disp = 0,
              !.played = 0, !.quiet = 0, !.op = "set_stage"]

\* The loop of an update that takes a flag only when the difference exceeds
\* its count.
first_flag_below(diff, i) ==
    IF \E k \in i..Len(FLAG_INFO_TABLE) : diff > FLAG_INFO_TABLE[k]
    THEN FLAG_INFO_TABLE[CHOOSE k \in i..Len(FLAG_INFO_TABLE) :
                            /\ diff > FLAG_INFO_TABLE[k]
                            /\ \A j \in i..(k - 1) : ~(diff > FLAG_INFO_TABLE[j])]
    ELSE 0

\* The loop of update: the first flag of the table from index i on whose
\* count is not above diff, or 0 when there is none.
first_flag(diff, i) ==
    IF \E k \in i..Len(FLAG_INFO_TABLE) : diff >= FLAG_INFO_TABLE[k]
    THEN FLAG_INFO_TABLE[CHOOSE k \in i..Len(FLAG_INFO_TABLE) :
                            /\ diff >= FLAG_INFO_TABLE[k]
                            /\ \A j \in i..(k - 1) : ~(diff >= FLAG_INFO_TABLE[j])]
    ELSE 0

\* What a call of update leaves alone or counts, by the fields it wrote.
IndicatorCalled(s, after, played) ==
    [after EXCEPT !.op = "update", !.played = played,
                  !.quiet = IF after.stage_disp # s.stage_disp THEN 0
                            ELSE IF s.quiet < 3 THEN s.quiet + 1 ELSE 3]

\* StageIndicator::update
stage_indicator_update(s) ==
    IF s.stage_disp >= s.stage THEN IndicatorCalled(s, s, 0)
    ELSE IF s.wait > 0 THEN IndicatorCalled(s, [s EXCEPT !.wait = s.wait - 1], 0)
    ELSE IF first_flag(s.stage - s.stage_disp, 1) # 0
    THEN IndicatorCalled(s, [s EXCEPT !.stage_disp =
                                          s.stage_disp
                                          + first_flag(s.stage - s.stage_disp, 1),
                                      !.wait = 3], 1)
    ELSE IndicatorCalled(s, s, 0)

IndicatorOthersUnchanged ==
    UNCHANGED <<stageVars, enemyVars, partVars, dual_player_pos, stage_no, ecs_owl,
                game_info>>

SetStage(stage) ==
    /\ stage_indicator' = set_stage(stage_indicator, stage)
    /\ IndicatorOthersUnchanged

IndicatorUpdate ==
    /\ stage_indicator' = stage_indicator_update(stage_indicator)
    /\ IndicatorOthersUnchanged

InitIndicator ==
    /\ InitCommonBase
    /\ InitUtil
    /\ enemies = [fi \in Slots |-> NoEnemy]

NextIndicator ==
    \/ \E stage \in 0..MaxStage : SetStage(stage)
    \/ IndicatorUpdate

SpecIndicator == InitIndicator /\ [][NextIndicator]_vars

\* The largest flag that is not above the difference.
LargestFlag(diff) ==
    CHOOSE c \in {FLAG_INFO_TABLE[k] : k \in 1..Len(FLAG_INFO_TABLE)} :
        /\ c <= diff
        /\ \A k \in 1..Len(FLAG_INFO_TABLE) :
              FLAG_INFO_TABLE[k] <= diff => FLAG_INFO_TABLE[k] <= c

\* The updates that are left at most: four for every stage still to show,
\* and the wait that runs.
UpdatesLeft(s) == 4 * (s.stage - s.stage_disp) + s.wait

\* One call of update, as the count-up has it.
CountUpStep(s, t) ==
    /\ t.stage = s.stage
    /\ t.stage_disp <= t.stage
    /\ s.stage_disp < s.stage => UpdatesLeft(t) < UpdatesLeft(s)
    /\ t.stage_disp # s.stage_disp =>
          /\ t.stage_disp - s.stage_disp = LargestFlag(s.stage - s.stage_disp)
          /\ t.played = 1
          /\ s.stage_disp = 0 \/ s.quiet = 3
    /\ (s.stage_disp # 0 /\ s.quiet < 3) => t.stage_disp = s.stage_disp
    /\ s.stage_disp = s.stage =>
          /\ t.stage_disp = s.stage_disp /\ t.wait = s.wait
          /\ t.played = 0

(***************************************************************************)
(* C40: after set_stage(n) the calls of update bring stage_disp to exactly *)
(* n in finitely many calls: stage_disp never exceeds n, every call before *)
(* the end lowers the number of calls left, each rise is the largest flag  *)
(* value not above the remaining difference and is followed by 3 updates   *)
(* without a change of stage_disp, and once stage_disp equals n update     *)
(* changes nothing and plays no sound.                                     *)
(***************************************************************************)
C40_CountUp ==
    [][stage_indicator'.op = "update" =>
          CountUpStep(stage_indicator, stage_indicator')]_vars

\* The count-up of stage 99 has shown all six flags' values and is at its end.
C40_Witness ==
    /\ stage_indicator.stage = 99
    /\ stage_indicator.stage_disp = 99
    /\ stage_indicator.op = "update"
    /\ stage_indicator.quiet = 3

====
